---- MODULE Spec2Model ----
(***************************************************************************)
(* DeskAnalyse: the hardware collectors of core/hardware_info.py.          *)
(*                                                                         *)
(* Python strings are modelled as sequences of one-character strings, so   *)
(* that strip(), lower() and the "in" substring test are computed and not  *)
(* assumed.  A collector is a loop over its list of methods; one step of   *)
(* the model is one iteration of that loop (invoke the method, merge what  *)
(* it returned, test the early exit).                                      *)
(***************************************************************************)
EXTENDS Integers, Sequences, FiniteSets, TLC

VARIABLES
    pc,          \* position of the running collector: "loop", "done", "raised"
    category,    \* the collector that was called
    result,      \* the collector's accumulator (the dict it returns)
    tried,       \* number of methods of the list invoked so far
    outcomes,    \* what each invoked method did, in order
    trail,       \* the accumulator after each iteration, in order
    raw,         \* what a probe under study read from its interface
    produced,    \* what that probe built from it
    window,      \* the fields of the MainWindow and the callbacks Tk holds for it
    workers      \* the collect_info threads started so far, each with its position

vars == <<pc, category, result, tried, outcomes, trail, raw, produced, window, workers>>

\* no window has been created: the collectors are called directly
NoWindow == window = <<>> /\ workers = <<>>

(***************************************************************************)
(* Strings                                                                 *)
(***************************************************************************)

\* "Não disponível"
ND == <<"N", "ã", "o", " ", "d", "i", "s", "p", "o", "n", "í", "v", "e", "l">>

\* "Não identificado"
NaoIdentificado ==
    <<"N", "ã", "o", " ", "i", "d", "e", "n", "t", "i", "f", "i", "c", "a", "d", "o">>

\* ""
Empty == <<>>

\* Python truthiness of a str
Truthy(s) == s # Empty

\* the claims' notion of a resolved field value
Resolved(s) == s # Empty /\ s # ND

UpperLetters ==
    <<"A", "B", "C", "D", "E", "F", "G", "H", "I", "J", "K", "L", "M",
      "N", "O", "P", "Q", "R", "S", "T", "U", "V", "W", "X", "Y", "Z">>

LowerLetters ==
    <<"a", "b", "c", "d", "e", "f", "g", "h", "i", "j", "k", "l", "m",
      "n", "o", "p", "q", "r", "s", "t", "u", "v", "w", "x", "y", "z">>

LowerChar(c) ==
    IF \E i \in DOMAIN UpperLetters : UpperLetters[i] = c
    THEN LowerLetters[CHOOSE i \in DOMAIN UpperLetters : UpperLetters[i] = c]
    ELSE c

\* str.lower()
Lower(s) == [i \in DOMAIN s |-> LowerChar(s[i])]

Whitespace == {" ", "\t", "\n", "\r"}

RECURSIVE LStrip(_)
LStrip(s) == IF s # <<>> /\ Head(s) \in Whitespace THEN LStrip(Tail(s)) ELSE s

RECURSIVE RStrip(_)
RStrip(s) ==
    IF s # <<>> /\ s[Len(s)] \in Whitespace THEN RStrip(SubSeq(s, 1, Len(s) - 1)) ELSE s

\* str.strip()
Strip(s) == RStrip(LStrip(s))

\* pat in s
Contains(s, pat) ==
    \E i \in 0..(Len(s) - Len(pat)) : SubSeq(s, i + 1, i + Len(pat)) = pat

Digits == <<"0", "1", "2", "3", "4", "5", "6", "7", "8", "9">>

\* str(n) for a natural number
RECURSIVE DecStr(_)
DecStr(n) == IF n < 10 THEN <<Digits[n + 1]>> ELSE DecStr(n \div 10) \o <<Digits[(n % 10) + 1]>>

IsDigit(c) == \E i \in DOMAIN Digits : Digits[i] = c

DigitValue(c) == (CHOOSE i \in DOMAIN Digits : Digits[i] = c) - 1

RECURSIVE DigitsValue(_)
DigitsValue(s) ==
    IF s = <<>> THEN 0 ELSE DigitsValue(SubSeq(s, 1, Len(s) - 1)) * 10 + DigitValue(s[Len(s)])

\* whether int(s) succeeds for a str s (surrounding whitespace is accepted)
IntParses(s) == Strip(s) # <<>> /\ \A i \in DOMAIN Strip(s) : IsDigit(Strip(s)[i])

\* int(s) when it succeeds
IntOf(s) == DigitsValue(Strip(s))

(***************************************************************************)
(* Manufacturer of a RAM module (_get_ram_info_powershell_cim)             *)
(***************************************************************************)

\* ["unknown", "not specified", "0000", "to be filled by o.e.m."]
GenericManufacturers ==
    {<<"u", "n", "k", "n", "o", "w", "n">>,
     <<"n", "o", "t", " ", "s", "p", "e", "c", "i", "f", "i", "e", "d">>,
     <<"0", "0", "0", "0">>,
     <<"t", "o", " ", "b", "e", " ", "f", "i", "l", "l", "e", "d", " ", "b", "y", " ", "o", ".", "e", ".", "m", ".">>}

\* faulty variant of IsGeneric: the placeholder is compared without lower()
IsGenericCaseSensitive(manufacturer) ==
    ~Truthy(manufacturer) \/ manufacturer \in GenericManufacturers

\* not manufacturer or manufacturer.lower() in [...]
IsGeneric(manufacturer) ==
    ~Truthy(manufacturer) \/ Lower(manufacturer) \in GenericManufacturers

\* the if/elif chain over the part number
ManufacturerFromPartNumber(part_number) ==
    IF Contains(part_number, <<"K", "H", "X">>) \/ Contains(part_number, <<"H", "X">>)
    THEN <<"K", "i", "n", "g", "s", "t", "o", "n">>
    ELSE IF Contains(part_number, <<"C", "M", "K">>) \/ Contains(part_number, <<"C", "M", "W">>)
            \/ Contains(part_number, <<"C", "M">>)
    THEN <<"C", "o", "r", "s", "a", "i", "r">>
    ELSE IF Contains(part_number, <<"F", "4">>) /\ Contains(part_number, <<"G">>)
    THEN <<"G", ".", "S", "k", "i", "l", "l">>
    ELSE IF Contains(part_number, <<"B", "L", "S">>) \/ Contains(part_number, <<"C", "T">>)
    THEN <<"C", "r", "u", "c", "i", "a", "l">>
    ELSE IF Contains(part_number, <<"A", "X", "4", "U">>)
    THEN <<"A", "D", "A", "T", "A", " ", "X", "P", "G">>
    ELSE IF Contains(part_number, <<"M", "3", "7", "8">>)
    THEN <<"S", "a", "m", "s", "u", "n", "g">>
    ELSE IF Contains(part_number, <<"H", "M", "A">>) \/ Contains(part_number, <<"H", "M", "P">>)
    THEN <<"H", "y", "n", "i", "x">>
    ELSE IF Contains(part_number, <<"P", "V", "S">>)
    THEN <<"P", "a", "t", "r", "i", "o", "t", " ", "V", "i", "p", "e", "r">>
    ELSE IF Contains(part_number, <<"T", "E", "D", "4">>)
    THEN <<"T", "e", "a", "m", "g", "r", "o", "u", "p", " ", "E", "l", "i", "t", "e">>
    ELSE NaoIdentificado

\* manufacturer after "if part_number:" and its chain; the part number is
\* module.get("PartNumber", "").strip()
AfterPartNumber(manufacturer, raw_part_number) ==
    IF IsGeneric(manufacturer) /\ Truthy(Strip(raw_part_number))
    THEN ManufacturerFromPartNumber(Strip(raw_part_number))
    ELSE manufacturer

\* "Se ainda estiver vazio, usa Não identificado"
StillGeneric(manufacturer) == IF IsGeneric(manufacturer) THEN NaoIdentificado ELSE manufacturer

\* the manufacturer stored for a module, from the raw Manufacturer and
\* PartNumber of the JSON object
ResolveManufacturer(raw_manufacturer, raw_part_number) ==
    StillGeneric(AfterPartNumber(Strip(raw_manufacturer), raw_part_number))

(***************************************************************************)
(* RAM probes.  Capacities are counted in GiB (1024**3 bytes), so that     *)
(* round(int(Capacity) / (1024**3), 2) is the number itself.               *)
(***************************************************************************)

\* result = {"total": ..., "slots_used": ..., "modules": []}
InitialRam == [total |-> ND, slots_used |-> ND, modules |-> <<>>]

\* f"{size_gb} GB": the repr of a float with a whole value
FormatSize(size_gb) == DecStr(size_gb) \o <<".", "0", " ", "G", "B">>

\* f"{total_memory_gb:.2f} GB"
FormatTotal(total_gb) == DecStr(total_gb) \o <<".", "0", "0", " ", "G", "B">>

\* f"{speed} MHz" for an int
FormatSpeed(speed) == DecStr(speed) \o <<" ", "M", "H", "z">>

RECURSIVE SumSeq(_)
SumSeq(s) == IF s = <<>> THEN 0 ELSE Head(s) + SumSeq(Tail(s))

\* "Atualiza o resultado": the tail shared by the three module probes
RamResult(total_memory_gb, modules) ==
    [total      |-> IF total_memory_gb > 0 THEN FormatTotal(total_memory_gb) ELSE ND,
     slots_used |-> IF modules # <<>> THEN DecStr(Len(modules)) ELSE ND,
     modules    |-> modules]

\* _get_ram_info_powershell_cim: one element of the parsed JSON
CimModule(module) ==
    LET bank_label == IF Truthy(Strip(module.BankLabel))
                      THEN Strip(module.BankLabel)
                      ELSE Strip(module.DeviceLocator)
    IN  [size         |-> FormatSize(module.Capacity),
         manufacturer |-> ResolveManufacturer(module.Manufacturer, module.PartNumber),
         location     |-> bank_label,
         speed        |-> FormatSpeed(module.Speed)]

\* _get_ram_info_powershell_cim on the parsed JSON list
RamPowershellCim(data) ==
    RamResult(SumSeq([i \in DOMAIN data |-> data[i].Capacity]),
              [i \in DOMAIN data |-> CimModule(data[i])])

\* _get_ram_info_wmi: one Win32_PhysicalMemory object; a missing or None
\* attribute is the empty string (Capacity and Speed: 0, and then size_gb is
\* the int 0, printed "0 GB")
WmiModule(memory) ==
    LET reported     == IF Truthy(memory.Manufacturer) THEN memory.Manufacturer ELSE ND
        manufacturer == IF Lower(reported) \in GenericManufacturers
                        THEN NaoIdentificado ELSE reported
        bank_label   == IF Truthy(memory.BankLabel) THEN memory.BankLabel ELSE ND
        device_locator == IF Truthy(memory.DeviceLocator) THEN memory.DeviceLocator ELSE ND
    IN  [size         |-> IF memory.Capacity = 0 THEN <<"0", " ", "G", "B">>
                          ELSE FormatSize(memory.Capacity),
         manufacturer |-> manufacturer,
         location     |-> IF bank_label # ND THEN bank_label ELSE device_locator,
         speed        |-> FormatSpeed(memory.Speed)]

\* _get_ram_info_wmi on the list of objects
RamWmi(physical_memory) ==
    RamResult(SumSeq([i \in DOMAIN physical_memory |-> physical_memory[i].Capacity]),
              [i \in DOMAIN physical_memory |-> WmiModule(physical_memory[i])])

\* dict.get(key, default) on the dict of sliced column values
Get(d, key, default) == IF key \in DOMAIN d THEN d[key] ELSE default

\* _get_ram_info_wmic: int(module_data.get("capacity", 0)) raises ValueError
\* for a value that is no number, and the row is skipped by "continue"
WmicRowKept(module_data) ==
    "capacity" \notin DOMAIN module_data \/ IntParses(module_data["capacity"])

WmicCapacity(module_data) ==
    IF "capacity" \in DOMAIN module_data THEN IntOf(module_data["capacity"]) ELSE 0

\* _get_ram_info_wmic: the module built from one row's module_data
WmicModule(module_data) ==
    LET reported     == Get(module_data, "manufacturer", ND)
        manufacturer == IF Lower(reported) \in GenericManufacturers
                        THEN NaoIdentificado ELSE reported
        banklabel    == Get(module_data, "banklabel", ND)
        location     == IF banklabel = ND
                        THEN Get(module_data, "devicelocator", ND) ELSE banklabel
    IN  [size         |-> FormatSize(WmicCapacity(module_data)),
         manufacturer |-> manufacturer,
         location     |-> location,
         speed        |-> Get(module_data, "speed", <<"0">>) \o <<" ", "M", "H", "z">>]

\* the rows a "for line in lines[1:]" loop keeps, in order
RECURSIVE KeptRows(_)
KeptRows(rows) ==
    IF rows = <<>> THEN <<>>
    ELSE IF WmicRowKept(Head(rows)) THEN <<Head(rows)>> \o KeptRows(Tail(rows))
    ELSE KeptRows(Tail(rows))

\* _get_ram_info_wmic on the rows' module_data
RamWmic(rows) ==
    LET kept == KeptRows(rows)
    IN  RamResult(SumSeq([i \in DOMAIN kept |-> WmicCapacity(kept[i])]),
                  [i \in DOMAIN kept |-> WmicModule(kept[i])])

\* _get_ram_info_psutil: only the total is known
RamPsutil(total_gb) == [total |-> FormatTotal(total_gb), slots_used |-> ND, modules |-> <<>>]

(***************************************************************************)
(* Scalar collectors: get_motherboard_info, get_cpu_info, get_tpm_info,    *)
(* get_bluetooth_info, get_wifi_info                                       *)
(***************************************************************************)

ScalarCategories == {"motherboard", "cpu", "tpm", "bluetooth", "wifi"}

\* the keys of the dict the collector starts from
Fields(c) ==
    CASE c = "motherboard" -> {"manufacturer", "model", "serial_number"}
      [] c = "cpu"         -> {"brand", "model"}
      [] c = "tpm"         -> {"version", "status", "manufacturer"}
      [] c = "bluetooth"   -> {"device_name", "device_status"}
      [] c = "wifi"        -> {"adapter_name", "adapter_status", "connected_ssid"}

\* the length of the collector's methods list
NumMethods(c) ==
    CASE c = "motherboard" -> 3
      [] c = "cpu"         -> 4
      [] c = "tpm"         -> 3
      [] c = "bluetooth"   -> 3
      [] c = "wifi"        -> 3
      [] c = "ram"         -> 4
      [] c = "disks"       -> 3
      [] c = "gpu"         -> 3

\* result = {...: "Não disponível"}
InitialResult(c) == [k \in Fields(c) |-> ND]

\* two distinct resolved values a method may report for a field
ValueX == <<"X">>
ValueY == <<"Y">>

FieldValues == {Empty, ND, ValueX, ValueY}

\* What one invocation "method()" inside the collector's try block can do:
\* raise, return a falsy value, or return a dict over the collector's keys.
Outcomes(c) ==
    {[raises |-> TRUE, truthy |-> FALSE, rec |-> InitialResult(c)],
     [raises |-> FALSE, truthy |-> FALSE, rec |-> InitialResult(c)]}
    \cup {[raises |-> FALSE, truthy |-> TRUE, rec |-> r] : r \in [Fields(c) -> FieldValues]}

Returned(o) == ~o.raises /\ o.truthy

\* faulty variant of Merge: the comparison with "Não disponível" is forgotten
MergeUnguarded(acc, rec) ==
    [k \in DOMAIN acc |-> IF Truthy(rec[k]) THEN rec[k] ELSE acc[k]]

\* faulty variant of Merge: "==" written for "!="
MergeInverted(acc, rec) ==
    [k \in DOMAIN acc |-> IF Truthy(rec[k]) /\ rec[k] = ND THEN rec[k] ELSE acc[k]]

\* for key, value in method_result.items():
\*     if value and value != "Não disponível": result[key] = value
Merge(acc, rec) ==
    [k \in DOMAIN acc |-> IF Truthy(rec[k]) /\ rec[k] # ND THEN rec[k] ELSE acc[k]]

\* faulty variant of MergeStep: a method that fails resets the accumulator
MergeStepResets(acc, o) ==
    IF Returned(o) THEN Merge(acc, o.rec) ELSE [k \in DOMAIN acc |-> ND]

\* the body of the try block up to the early-exit test
MergeStep(acc, o) == IF Returned(o) THEN Merge(acc, o.rec) ELSE acc

\* faulty variant of AllFilled: any() written for all()
AnyFilled(acc) == \E k \in DOMAIN acc : acc[k] # ND

\* if all(value != "Não disponível" for value in result.values()): break
AllFilled(acc) == \A k \in DOMAIN acc : acc[k] # ND

\* the break is inside "if method_result:", so only a returned dict reaches it
Breaks(acc, o) == Returned(o) /\ AllFilled(acc)

\* except Exception as e: print(...) -- the handler of every collector's loop
\* body catches what the method raised and only prints, nothing leaves the loop
Escapes(o) == FALSE

\* where the loop stands after an iteration: left by an exception, left by
\* break or exhaustion of the methods list, or at the next method
AfterIteration(o, breaks, n, total) ==
    IF Escapes(o) THEN "raised"
    ELSE IF breaks \/ n = total THEN "done"
    ELSE "loop"

ScalarInit ==
    /\ category \in ScalarCategories
    /\ result = InitialResult(category)
    /\ pc = "loop"
    /\ tried = 0
    /\ outcomes = <<>>
    /\ trail = <<>>

\* one iteration of "for method in methods:"
TryMethod ==
    /\ pc = "loop"
    /\ category \in ScalarCategories
    /\ tried < NumMethods(category)
    /\ \E o \in Outcomes(category) :
        /\ result' = MergeStep(result, o)
        /\ outcomes' = Append(outcomes, o)
        /\ trail' = Append(trail, result')
        /\ tried' = tried + 1
        /\ pc' = AfterIteration(o, Breaks(result', o), tried', NumMethods(category))
    /\ UNCHANGED <<category, raw, produced, window, workers>>

(***************************************************************************)
(* get_ram_info                                                            *)
(***************************************************************************)

\* the longest list a probe reports (modules, disks, video controllers)
MaxEntities == 2

\* all sequences over S of length at most n
SeqsUpTo(S, n) == UNION {[1..k -> S] : k \in 0..n}

\* objects of the JSON that ConvertTo-Json prints for Win32_PhysicalMemory
CimObjects ==
    {[Capacity |-> 8, Manufacturer |-> <<"S", "a", "m", "s", "u", "n", "g">>, PartNumber |-> <<"M", "3", "7", "8">>,
      BankLabel |-> <<"B", "A", "N", "K", " ", "0">>, DeviceLocator |-> <<"D", "I", "M", "M", "1">>, Speed |-> 2666],
     [Capacity |-> 0, Manufacturer |-> <<>>, PartNumber |-> <<"K", "H", "X">>,
      BankLabel |-> <<>>, DeviceLocator |-> <<>>, Speed |-> 0]}

\* Win32_PhysicalMemory objects of the WMI client
WmiObjects ==
    {[Capacity |-> 8, Manufacturer |-> <<"S", "a", "m", "s", "u", "n", "g">>,
      BankLabel |-> <<"B", "A", "N", "K", " ", "0">>, DeviceLocator |-> <<"D", "I", "M", "M", "1">>, Speed |-> 2666],
     [Capacity |-> 4, Manufacturer |-> <<>>,
      BankLabel |-> <<>>, DeviceLocator |-> <<>>, Speed |-> 0]}

\* module_data of a row of "wmic memorychip get ..."
WmicRows ==
    {[capacity |-> <<"8">>, manufacturer |-> <<"S", "a", "m", "s", "u", "n", "g">>,
      banklabel |-> <<"B", "A", "N", "K", " ", "0">>, devicelocator |-> <<"D", "I", "M", "M", "1">>, speed |-> <<"2", "6", "6", "6">>],
     [capacity |-> <<"4">>, manufacturer |-> <<>>,
      banklabel |-> <<>>, devicelocator |-> <<"D", "I", "M", "M", "2">>, speed |-> <<"2", "4", "0", "0">>],
     [capacity |-> <<>>, manufacturer |-> <<"S", "a", "m", "s", "u", "n", "g">>,
      banklabel |-> <<"B", "A", "N", "K", " ", "1">>, devicelocator |-> <<"D", "I", "M", "M", "3">>, speed |-> <<"2", "6", "6", "6">>]}

\* psutil.virtual_memory().total, in GiB
PsutilTotals == {8, 16}

\* the dicts the i-th method of get_ram_info can return; InitialRam is what
\* each of them returns when its interface is absent or its own try fails
RamRecords(i) ==
    {InitialRam} \cup
    CASE i = 1 -> {RamPowershellCim(d) : d \in SeqsUpTo(CimObjects, MaxEntities)}
      [] i = 2 -> {RamWmi(d) : d \in SeqsUpTo(WmiObjects, MaxEntities)}
      [] i = 3 -> {RamWmic(d) : d \in SeqsUpTo(WmicRows, MaxEntities)}
      [] i = 4 -> {RamPsutil(t) : t \in PsutilTotals}

RamOutcomes(i) ==
    {[raises |-> TRUE, truthy |-> FALSE, rec |-> InitialRam]}
    \cup {[raises |-> FALSE, truthy |-> TRUE, rec |-> r] : r \in RamRecords(i)}

\* faulty variant of MergeRam: a modules list already held is not replaced
MergeRamKeepsModules(acc, rec) ==
    [k \in DOMAIN acc |->
        IF k = "modules"
        THEN IF rec[k] # <<>> /\ acc[k] = <<>> THEN rec[k] ELSE acc[k]
        ELSE IF Truthy(rec[k]) /\ rec[k] # ND THEN rec[k] ELSE acc[k]]

\* for key, value in method_result.items():
\*     if key == "modules":
\*         if value: result["modules"] = value
\*     elif value and value != "Não disponível": result[key] = value
MergeRam(acc, rec) ==
    [k \in DOMAIN acc |->
        IF k = "modules"
        THEN IF rec[k] # <<>> THEN rec[k] ELSE acc[k]
        ELSE IF Truthy(rec[k]) /\ rec[k] # ND THEN rec[k] ELSE acc[k]]

MergeRamStep(acc, o) == IF Returned(o) THEN MergeRam(acc, o.rec) ELSE acc

\* if result["total"] != ND and result["slots_used"] != ND and result["modules"]: break
RamFilled(acc) == acc.total # ND /\ acc.slots_used # ND /\ acc.modules # <<>>

RamBreaks(acc, o) == Returned(o) /\ RamFilled(acc)

RamInit ==
    /\ category = "ram"
    /\ result = InitialRam
    /\ pc = "loop"
    /\ tried = 0
    /\ outcomes = <<>>
    /\ trail = <<>>

\* one iteration of "for method in methods:" of get_ram_info
TryRamMethod ==
    /\ pc = "loop"
    /\ category = "ram"
    /\ tried < NumMethods(category)
    /\ \E o \in RamOutcomes(tried + 1) :
        /\ result' = MergeRamStep(result, o)
        /\ outcomes' = Append(outcomes, o)
        /\ trail' = Append(trail, result')
        /\ tried' = tried + 1
        /\ pc' = AfterIteration(o, RamBreaks(result', o), tried', NumMethods(category))
    /\ UNCHANGED <<category, raw, produced, window, workers>>

(***************************************************************************)
(* get_disk_info and get_gpu_info: the accumulator is the list all_disks   *)
(* (result in get_gpu_info)                                                *)
(***************************************************************************)

\* dicts a disk probe can put in its list
DiskEntities ==
    {[model |-> <<"E", "v", "o">>, type |-> <<"S", "S", "D">>, size |-> <<"5", "0", "0", ".", "0", "0", " ", "G", "B">>, free_space |-> ND],
     [model |-> <<"E", "v", "o">>, type |-> ND, size |-> <<"5", "0", "0", ".", "0", "0", " ", "G", "B">>,
      free_space |-> <<"1", "0", "0", ".", "0", "0", " ", "G", "B">>],
     [model |-> <<"E", "V", "O">>, type |-> <<"H", "D", "D">>, size |-> <<"5", "0", "0", ".", "0", "0", " ", "G", "B">>, free_space |-> ND],
     [model |-> <<"E", "v", "o">>, type |-> <<"H", "D", "D">>, size |-> <<"2", "5", "0", ".", "0", "0", " ", "G", "B">>,
      free_space |-> <<"5", "0", ".", "0", "0", " ", "G", "B">>]}

\* dicts a video controller probe can put in its list
GpuEntities == {[model |-> <<"G", "p", "u">>], [model |-> <<"G", "P", "U">>], [model |-> ND]}

ListOutcomes(entities) ==
    {[raises |-> TRUE, truthy |-> FALSE, rec |-> <<>>]}
    \cup {[raises |-> FALSE, truthy |-> r # <<>>, rec |-> r] :
            r \in SeqsUpTo(entities, MaxEntities)}

\* faulty variant of FirstMatch: only the newest entry is compared
FirstMatchNewestOnly(all_disks, disk) ==
    IF all_disks # <<>> /\ all_disks[Len(all_disks)].model = disk.model
    THEN Len(all_disks) ELSE 0

\* index of the first existing_disk with existing_disk["model"] == disk["model"],
\* 0 when the inner loop ends without a break
FirstMatch(all_disks, disk) ==
    IF \E i \in DOMAIN all_disks : all_disks[i].model = disk.model
    THEN CHOOSE i \in DOMAIN all_disks :
            /\ all_disks[i].model = disk.model
            /\ \A j \in 1..(i - 1) : all_disks[j].model # disk.model
    ELSE 0

\* faulty variant of UpdateDisk: a resolved type is replaced by the later one
UpdateDiskOverwritesType(existing_disk, disk) ==
    [existing_disk EXCEPT
        !.free_space = IF disk.free_space # ND /\ existing_disk.free_space = ND
                       THEN disk.free_space ELSE @,
        !.type       = IF disk.type # ND THEN disk.type ELSE @]

\* faulty variant of UpdateDisk: the type is not taken over
UpdateDiskFreeSpaceOnly(existing_disk, disk) ==
    [existing_disk EXCEPT
        !.free_space = IF disk.free_space # ND /\ existing_disk.free_space = ND
                       THEN disk.free_space ELSE @]

\* "Atualiza informações se forem mais completas"
UpdateDisk(existing_disk, disk) ==
    [existing_disk EXCEPT
        !.free_space = IF disk.free_space # ND /\ existing_disk.free_space = ND
                       THEN disk.free_space ELSE @,
        !.type       = IF disk.type # ND /\ existing_disk.type = ND
                       THEN disk.type ELSE @]

\* the body of "for disk in result:" of get_disk_info
MergeDisk(all_disks, disk) ==
    IF FirstMatch(all_disks, disk) # 0
    THEN [all_disks EXCEPT ![FirstMatch(all_disks, disk)] = UpdateDisk(@, disk)]
    ELSE Append(all_disks, disk)

RECURSIVE MergeDisks(_, _)
MergeDisks(all_disks, found) ==
    IF found = <<>> THEN all_disks
    ELSE MergeDisks(MergeDisk(all_disks, Head(found)), Tail(found))

\* if result and len(result) > 0: ...
MergeDisksStep(all_disks, o) == IF Returned(o) THEN MergeDisks(all_disks, o.rec) ELSE all_disks

\* the body of "for gpu in method_result:" of get_gpu_info
MergeGpu(acc, gpu) ==
    IF \E i \in DOMAIN acc : acc[i].model = gpu.model THEN acc ELSE Append(acc, gpu)

RECURSIVE MergeGpus(_, _)
MergeGpus(acc, found) ==
    IF found = <<>> THEN acc ELSE MergeGpus(MergeGpu(acc, Head(found)), Tail(found))

MergeGpusStep(acc, o) == IF Returned(o) THEN MergeGpus(acc, o.rec) ELSE acc

ListCategories == {"disks", "gpu"}

ListInit ==
    /\ category \in ListCategories
    /\ result = <<>>
    /\ pc = "loop"
    /\ tried = 0
    /\ outcomes = <<>>
    /\ trail = <<>>

\* one iteration of "for method in methods:" of get_disk_info; the loop has no break
TryDiskMethod ==
    /\ pc = "loop"
    /\ category = "disks"
    /\ tried < NumMethods(category)
    /\ \E o \in ListOutcomes(DiskEntities) :
        /\ result' = MergeDisksStep(result, o)
        /\ outcomes' = Append(outcomes, o)
        /\ trail' = Append(trail, result')
        /\ tried' = tried + 1
        /\ pc' = AfterIteration(o, FALSE, tried', NumMethods(category))
    /\ UNCHANGED <<category, raw, produced, window, workers>>

\* one iteration of "for method in methods:" of get_gpu_info; the loop has no break
TryGpuMethod ==
    /\ pc = "loop"
    /\ category = "gpu"
    /\ tried < NumMethods(category)
    /\ \E o \in ListOutcomes(GpuEntities) :
        /\ result' = MergeGpusStep(result, o)
        /\ outcomes' = Append(outcomes, o)
        /\ trail' = Append(trail, result')
        /\ tried' = tried + 1
        /\ pc' = AfterIteration(o, FALSE, tried', NumMethods(category))
    /\ UNCHANGED <<category, raw, produced, window, workers>>

(***************************************************************************)
(* One call of one collector                                               *)
(***************************************************************************)

Init == (ScalarInit \/ RamInit \/ ListInit) /\ raw = <<>> /\ produced = <<>> /\ NoWindow

Next == TryMethod \/ TryRamMethod \/ TryDiskMethod \/ TryGpuMethod

Spec == Init /\ [][Next]_vars

(***************************************************************************)
(* Properties of the collectors                                            *)
(***************************************************************************)

\* the collectors that merge field by field (get_ram_info: total, slots_used)
FieldMerging == category \in ScalarCategories \cup {"ram"}

ScalarKeys == IF category = "ram" THEN {"total", "slots_used"} ELSE Fields(category)

InitialOf(c) ==
    IF c \in ScalarCategories THEN InitialResult(c)
    ELSE IF c = "ram" THEN InitialRam
    ELSE <<>>

\* the accumulator before the i-th invoked method
Before(i) == IF i = 1 THEN InitialOf(category) ELSE trail[i - 1]

\* the i-th invoked method returned a resolved value for key k
Reports(i, k) == Returned(outcomes[i]) /\ Resolved(outcomes[i].rec[k])

\* every field of the accumulator is resolved
Complete(acc) ==
    IF category = "ram"
    THEN Resolved(acc.total) /\ Resolved(acc.slots_used) /\ acc.modules # <<>>
    ELSE \A k \in Fields(category) : Resolved(acc[k])

\* the method raised, returned nothing, or returned an all-unavailable record
FailedOutcome(o) ==
    \/ o.raises
    \/ ~o.truthy
    \/ category \in ScalarCategories /\ \A k \in Fields(category) : o.rec[k] = ND
    \/ category = "ram" /\ o.rec = InitialRam

\* C1: in the field-merging collectors a field that holds a resolved value
\* before a method is merged holds the same value after it (first resolved
\* value wins).
C1_FirstResolvedValueWins ==
    FieldMerging =>
        \A k \in ScalarKeys : \A i \in 1..Len(trail) :
            Resolved(Before(i)[k]) => trail[i][k] = Before(i)[k]

\* C2: if method i reported the resolved value X for a field and no later
\* invoked method reported a resolved value for it, the field holds X.
C2_ResolvedNeverReplacedByUnresolved ==
    FieldMerging =>
        \A k \in ScalarKeys : \A i \in 1..Len(outcomes) :
            (Reports(i, k) /\ \A j \in (i + 1)..Len(outcomes) : ~Reports(j, k))
                => result[k] = outcomes[i].rec[k]

C2_Witness ==
    /\ category = "tpm"
    /\ pc = "done"
    /\ \E k \in ScalarKeys : \E i \in 1..(Len(outcomes) - 1) :
        /\ Reports(i, k)
        /\ \A j \in (i + 1)..Len(outcomes) :
            Returned(outcomes[j]) /\ outcomes[j].rec[k] \in {Empty, ND}
        /\ \E j \in (i + 1)..Len(outcomes) : outcomes[j].rec[k] = Empty
        /\ \E j \in (i + 1)..Len(outcomes) : outcomes[j].rec[k] = ND
        /\ result[k] = outcomes[i].rec[k]

\* C3: while no invoked method has reported a resolved value for a field the
\* loop goes on to the next method, and the first method that reports a
\* resolved value Y for it leaves Y in the accumulator right after its merge;
\* when the collector returns after [A: ""], [B: Y] the returned field is Y.
C3_FirstResolvingProbeIsMerged ==
    FieldMerging =>
        \A k \in ScalarKeys :
            /\ ((\A j \in 1..Len(outcomes) : ~Reports(j, k))
                    /\ tried < NumMethods(category)) => pc = "loop"
            /\ \A i \in 1..Len(outcomes) :
                (Reports(i, k) /\ \A j \in 1..(i - 1) : ~Reports(j, k))
                    => trail[i][k] = outcomes[i].rec[k]
            /\ (pc = "done" /\ Len(outcomes) = 2 /\ ~Reports(1, k) /\ Reports(2, k))
                    => result[k] = outcomes[2].rec[k]

C3_Witness ==
    /\ category = "bluetooth"
    /\ pc = "done"
    /\ Len(outcomes) = 2
    /\ \E k \in ScalarKeys :
        /\ Returned(outcomes[1]) /\ outcomes[1].rec[k] = Empty
        /\ Reports(2, k)
        /\ result[k] = outcomes[2].rec[k]

\* C4: no field of a returned record is the empty string: the scalar
\* records, and every field of every disk, GPU and RAM module entity.
C4_NoEmptyField ==
    pc = "done" =>
        /\ category \in ScalarCategories => \A k \in Fields(category) : result[k] # Empty
        /\ category = "ram" =>
            /\ result.total # Empty /\ result.slots_used # Empty
            /\ \A i \in DOMAIN result.modules : \A f \in DOMAIN result.modules[i] :
                result.modules[i][f] # Empty
        /\ category \in ListCategories =>
            \A i \in DOMAIN result : \A f \in DOMAIN result[i] : result[i][f] # Empty

\* C5: in the field-merging collectors no method is invoked after the one
\* whose merge left every field resolved, and while a field is unresolved and
\* methods remain the loop stands at the next method.
C5_EarlyExit ==
    FieldMerging =>
        /\ \A i \in 1..Len(trail) : Complete(trail[i]) => (i = Len(trail) /\ pc = "done")
        /\ (~Complete(result) /\ tried < NumMethods(category)) => pc = "loop"

C5_Witness ==
    /\ category = "ram"
    /\ pc = "done"
    /\ tried = 2
    /\ ~Complete(trail[1])
    /\ Complete(result)

\* C6: a method that raises or returns an all-unavailable record leaves the
\* accumulator as it was and the loop goes on to the next method; when every
\* method failed the collector returns its initial, all-unavailable record;
\* no exception leaves a collector.
C6_FailingProbeChangesNothing ==
    /\ pc # "raised"
    /\ \A i \in 1..Len(outcomes) :
        FailedOutcome(outcomes[i]) =>
            /\ trail[i] = Before(i)
            /\ i < NumMethods(category) => (i < Len(outcomes) \/ pc = "loop")
    /\ (pc = "done" /\ \A i \in 1..Len(outcomes) : FailedOutcome(outcomes[i]))
            => (tried = NumMethods(category) /\ result = InitialOf(category))

C6_Witness ==
    /\ category = "cpu"
    /\ pc = "done"
    /\ Len(outcomes) = 4
    /\ Returned(outcomes[1]) /\ ~FailedOutcome(outcomes[1])
    /\ outcomes[2].raises
    /\ Returned(outcomes[3]) /\ FailedOutcome(outcomes[3])
    /\ trail[3] = trail[1]

\* C7: the modules list get_ram_info returns is the modules list of the
\* first method that returned a non-empty one.
C7_ModulesFirstSuccessWins ==
    (category = "ram" /\ pc = "done") =>
        \A i \in 1..Len(outcomes) :
            (/\ Returned(outcomes[i]) /\ outcomes[i].rec.modules # <<>>
             /\ \A j \in 1..(i - 1) :
                    ~(Returned(outcomes[j]) /\ outcomes[j].rec.modules # <<>>))
                => result.modules = outcomes[i].rec.modules

\* the disks the i-th invoked method reported
Reported(i) == {outcomes[i].rec[n] : n \in DOMAIN outcomes[i].rec}

\* C8: when two methods report the same model, one with a free_space and no
\* type, the other with a type and no free_space, all_disks holds exactly
\* one entry of that model, with both resolved.
C8_DiskDedup ==
    category = "disks" =>
        \A i, j \in 1..Len(outcomes) : \A a \in Reported(i) : \A b \in Reported(j) :
            (/\ i # j
             /\ a.model = b.model
             /\ Resolved(a.free_space) /\ a.type = ND
             /\ Resolved(b.type) /\ b.free_space = ND)
                => /\ Cardinality({n \in DOMAIN result : result[n].model = a.model}) = 1
                   /\ \A n \in DOMAIN result :
                        result[n].model = a.model
                            => Resolved(result[n].free_space) /\ Resolved(result[n].type)

C8_Witness ==
    /\ category = "disks"
    /\ pc = "done"
    /\ \E i, j \in 1..Len(outcomes) : \E a \in Reported(i) : \E b \in Reported(j) :
        /\ i < j
        /\ a.model = b.model
        /\ Resolved(a.free_space) /\ a.type = ND
        /\ Resolved(b.type) /\ b.free_space = ND
        /\ Len(result) = 1
        /\ result[1].free_space = a.free_space
        /\ result[1].type = b.type
    /\ \E i, j \in 1..Len(outcomes) : \E a \in Reported(i) : \E b \in Reported(j) :
        /\ i > j
        /\ a.model = b.model
        /\ Resolved(a.free_space) /\ a.type = ND
        /\ Resolved(b.type) /\ b.free_space = ND

\* a run of whitespace becomes one space
RECURSIVE CollapseWhitespace(_)
CollapseWhitespace(s) ==
    IF s = <<>> THEN <<>>
    ELSE IF Head(s) \in Whitespace
    THEN <<" ">> \o CollapseWhitespace(LStrip(s))
    ELSE <<Head(s)>> \o CollapseWhitespace(Tail(s))

\* the identity key: the model trimmed, lower-cased, whitespace collapsed
IdentityKey(model) == CollapseWhitespace(Lower(Strip(model)))

\* C9: in the disk and GPU lists two reported entities are one entry iff
\* their identity keys are equal: no two entries have the same identity key,
\* and every reported identity key has an entry.
C9_MergedIffIdentityKeysEqual ==
    category \in ListCategories =>
        /\ \A m, n \in DOMAIN result :
            IdentityKey(result[m].model) = IdentityKey(result[n].model) => m = n
        /\ \A i \in 1..Len(outcomes) : \A a \in Reported(i) :
            \E n \in DOMAIN result : IdentityKey(result[n].model) = IdentityKey(a.model)

(***************************************************************************)
(* The manufacturer of one module of _get_ram_info_powershell_cim, over    *)
(* reported manufacturers and part numbers                                 *)
(***************************************************************************)

\* Manufacturer values of the JSON
ReportedManufacturers ==
    {<<>>, <<" ">>, <<"S", "a", "m", "s", "u", "n", "g">>, <<" ", "S", "a", "m", "s", "u", "n", "g", " ">>, <<"u", "n", "k", "n", "o", "w", "n">>, <<"U", "n", "k", "n", "o", "w", "n">>,
     <<" ", "u", "n", "k", "n", "o", "w", "n">>, <<"N", "o", "t", " ", "S", "p", "e", "c", "i", "f", "i", "e", "d">>, <<"0", "0", "0", "0">>, <<"T", "o", " ", "B", "e", " ", "F", "i", "l", "l", "e", "d", " ", "B", "y", " ", "O", ".", "E", ".", "M", ".">>,
     <<"U", "n", "k", "n", "o", "w", "n", " ", "I", "n", "c">>}

\* pieces part numbers are built from: the substrings the chain looks for,
\* and pieces it does not look for
PartTokens ==
    {<<"K", "H", "X">>, <<"H", "X">>, <<"C", "M", "K">>, <<"C", "M", "W">>, <<"C", "M">>, <<"F", "4">>, <<"G">>, <<"B", "L", "S">>, <<"C", "T">>,
     <<"A", "X", "4", "U">>, <<"M", "3", "7", "8">>, <<"H", "M", "A">>, <<"H", "M", "P">>, <<"P", "V", "S">>, <<"T", "E", "D", "4">>,
     <<"X", "Y", "Z", "1", "2", "3">>, <<" ">>, <<"k", "h", "x">>}

\* the largest number of pieces in a part number
MaxTokens == 2

RECURSIVE Flatten(_)
Flatten(ss) == IF ss = <<>> THEN <<>> ELSE Head(ss) \o Flatten(Tail(ss))

PartNumbers == {Flatten(ts) : ts \in SeqsUpTo(PartTokens, MaxTokens)}

ProbeInit ==
    /\ pc = "input"
    /\ raw \in [Capacity : {8}, Manufacturer : ReportedManufacturers,
                PartNumber : PartNumbers, BankLabel : {<<"B", "A", "N", "K", " ", "0">>},
                DeviceLocator : {<<"D", "I", "M", "M", "1">>}, Speed : {2666}]
    /\ produced = <<>>
    /\ category = "ram"
    /\ result = InitialRam
    /\ tried = 0
    /\ outcomes = <<>>
    /\ trail = <<>>
    /\ NoWindow

\* the body of "for module in data:" for one JSON object
BuildCimModule ==
    /\ pc = "input"
    /\ produced' = CimModule(raw)
    /\ pc' = "output"
    /\ UNCHANGED <<category, result, tried, outcomes, trail, raw, window, workers>>

SpecManufacturer == ProbeInit /\ [][BuildCimModule]_vars

\* the placeholders of a manufacturer that was not filled in
Placeholders ==
    {<<"u", "n", "k", "n", "o", "w", "n">>, <<"n", "o", "t", " ", "s", "p", "e", "c", "i", "f", "i", "e", "d">>, <<"0", "0", "0", "0">>, <<"t", "o", " ", "b", "e", " ", "f", "i", "l", "l", "e", "d", " ", "b", "y", " ", "o", ".", "e", ".", "m", ".">>}

\* the pattern table in the order of the chain: the substrings an entry looks
\* for (all of "needs" must occur) and its vendor
PatternTable ==
    <<[needs |-> {<<"K", "H", "X">>}, vendor |-> <<"K", "i", "n", "g", "s", "t", "o", "n">>],
      [needs |-> {<<"H", "X">>}, vendor |-> <<"K", "i", "n", "g", "s", "t", "o", "n">>],
      [needs |-> {<<"C", "M", "K">>}, vendor |-> <<"C", "o", "r", "s", "a", "i", "r">>],
      [needs |-> {<<"C", "M", "W">>}, vendor |-> <<"C", "o", "r", "s", "a", "i", "r">>],
      [needs |-> {<<"C", "M">>}, vendor |-> <<"C", "o", "r", "s", "a", "i", "r">>],
      [needs |-> {<<"F", "4">>, <<"G">>}, vendor |-> <<"G", ".", "S", "k", "i", "l", "l">>],
      [needs |-> {<<"B", "L", "S">>}, vendor |-> <<"C", "r", "u", "c", "i", "a", "l">>],
      [needs |-> {<<"C", "T">>}, vendor |-> <<"C", "r", "u", "c", "i", "a", "l">>],
      [needs |-> {<<"A", "X", "4", "U">>}, vendor |-> <<"A", "D", "A", "T", "A", " ", "X", "P", "G">>],
      [needs |-> {<<"M", "3", "7", "8">>}, vendor |-> <<"S", "a", "m", "s", "u", "n", "g">>],
      [needs |-> {<<"H", "M", "A">>}, vendor |-> <<"H", "y", "n", "i", "x">>],
      [needs |-> {<<"H", "M", "P">>}, vendor |-> <<"H", "y", "n", "i", "x">>],
      [needs |-> {<<"P", "V", "S">>}, vendor |-> <<"P", "a", "t", "r", "i", "o", "t", " ", "V", "i", "p", "e", "r">>],
      [needs |-> {<<"T", "E", "D", "4">>}, vendor |-> <<"T", "e", "a", "m", "g", "r", "o", "u", "p", " ", "E", "l", "i", "t", "e">>]>>

Occurs(n, part_number) == \A pat \in PatternTable[n].needs : Contains(part_number, pat)

\* the vendor of the first entry of the table that occurs in the part number
VendorByTable(part_number) ==
    IF \E n \in DOMAIN PatternTable : Occurs(n, part_number)
    THEN PatternTable[CHOOSE n \in DOMAIN PatternTable :
                        /\ Occurs(n, part_number)
                        /\ \A m \in 1..(n - 1) : ~Occurs(m, part_number)].vendor
    ELSE NaoIdentificado

\* C10 as stated: a reported manufacturer that is present (not blank) and no
\* placeholder is returned unchanged; otherwise the vendor of the first
\* pattern of the table that occurs in the part number, "Não identificado"
\* when none does.
C10_ManufacturerReturnedUnchanged ==
    pc = "output" =>
        produced.manufacturer =
            IF Strip(raw.Manufacturer) # Empty
               /\ Lower(Strip(raw.Manufacturer)) \notin Placeholders
            THEN raw.Manufacturer
            ELSE VendorByTable(Strip(raw.PartNumber))

\* C10 (amended): the reported manufacturer and the part number are trimmed
\* first; a trimmed manufacturer that is non-empty and no placeholder is
\* returned, otherwise the vendor of the first pattern of the table that
\* occurs in the trimmed part number, "Não identificado" when none does.
C10_ManufacturerHeuristic ==
    pc = "output" =>
        produced.manufacturer =
            IF Strip(raw.Manufacturer) # Empty
               /\ Lower(Strip(raw.Manufacturer)) \notin Placeholders
            THEN Strip(raw.Manufacturer)
            ELSE VendorByTable(Strip(raw.PartNumber))

C10_Witness ==
    /\ pc = "output"
    /\ raw.Manufacturer = <<"U", "n", "k", "n", "o", "w", "n">>
    /\ Contains(raw.PartNumber, <<"K", "H", "X">>)
    /\ Contains(raw.PartNumber, <<"C", "T">>)
    /\ produced.manufacturer = <<"K", "i", "n", "g", "s", "t", "o", "n">>

(***************************************************************************)
(* get_cpu_info over the four CPU probes reading one machine's processor   *)
(* name                                                                    *)
(***************************************************************************)

\* str.replace(old, ""): the occurrences of old are removed left to right,
\* without overlap
RECURSIVE Remove(_, _)
Remove(s, old) ==
    IF Len(s) < Len(old) THEN s
    ELSE IF SubSeq(s, 1, Len(old)) = old
    THEN Remove(SubSeq(s, Len(old) + 1, Len(s)), old)
    ELSE <<Head(s)>> \o Remove(Tail(s), old)

\* result = {"brand": "Não disponível", "model": "Não disponível"}
InitialCpu == [brand |-> ND, model |-> ND]

\* faulty variant of ExtractBrandModel: the model is not trimmed
ExtractBrandModelUntrimmed(full_name) ==
    IF Contains(full_name, <<"I", "n", "t", "e", "l">>)
    THEN [brand |-> <<"I", "n", "t", "e", "l">>, model |-> Remove(full_name, <<"I", "n", "t", "e", "l">>)]
    ELSE IF Contains(full_name, <<"A", "M", "D">>)
    THEN [brand |-> <<"A", "M", "D">>, model |-> Remove(full_name, <<"A", "M", "D">>)]
    ELSE [brand |-> ND, model |-> full_name]

\* "Extrai marca e modelo do nome completo": the if/elif/else of every CPU probe
ExtractBrandModel(full_name) ==
    IF Contains(full_name, <<"I", "n", "t", "e", "l">>)
    THEN [brand |-> <<"I", "n", "t", "e", "l">>, model |-> Strip(Remove(full_name, <<"I", "n", "t", "e", "l">>))]
    ELSE IF Contains(full_name, <<"A", "M", "D">>)
    THEN [brand |-> <<"A", "M", "D">>, model |-> Strip(Remove(full_name, <<"A", "M", "D">>))]
    ELSE [brand |-> ND, model |-> full_name]

\* the full_name the i-th method of get_cpu_info works on: info["brand_raw"],
\* processor.Name, lines[1].strip(), parts[1].strip()
FullName(i, name) == IF i \in {1, 2} THEN name ELSE Strip(name)

\* whether the i-th method reaches the extraction for this name: cpuinfo
\* needs a truthy brand_raw, WMIC a second line in output.strip()
ReachesExtraction(i, name) ==
    CASE i = 1 -> Truthy(name)
      [] i = 2 -> TRUE
      [] i = 3 -> Truthy(Strip(name))
      [] i = 4 -> TRUE

\* what the i-th method returns when its interface answers with this name
CpuProbe(i, name) ==
    IF ReachesExtraction(i, name) THEN ExtractBrandModel(FullName(i, name)) ELSE InitialCpu

\* pieces processor names are built from
CpuNameTokens ==
    {<<"I", "n", "t", "e", "l">>, <<"A", "M", "D">>, <<" ">>, <<" ", "C", "o", "r", "e", " ", "i", "7", "-", "9", "7", "0", "0">>, <<"R", "y", "z", "e", "n", " ", "5">>, <<"(", "R", ")">>, <<"I", "n", "t">>, <<"e", "l">>}

CpuNames == {Flatten(ts) : ts \in SeqsUpTo(CpuNameTokens, MaxTokens)}

\* What one invocation of the i-th method can do for this name: raise inside
\* the collector's try, find its interface absent or failing (its own except
\* returns the initial dict), or read the name
CpuOutcomes(i, name) ==
    {[raises |-> TRUE, truthy |-> FALSE, read |-> FALSE, rec |-> InitialCpu],
     [raises |-> FALSE, truthy |-> TRUE, read |-> FALSE, rec |-> InitialCpu],
     [raises |-> FALSE, truthy |-> TRUE, read |-> TRUE, rec |-> CpuProbe(i, name)]}

CpuInit ==
    /\ category = "cpu"
    /\ raw \in CpuNames
    /\ produced = <<>>
    /\ result = InitialResult(category)
    /\ pc = "loop"
    /\ tried = 0
    /\ outcomes = <<>>
    /\ trail = <<>>
    /\ NoWindow

\* one iteration of "for method in methods:" of get_cpu_info
TryCpuMethod ==
    /\ pc = "loop"
    /\ tried < NumMethods(category)
    /\ \E o \in CpuOutcomes(tried + 1, raw) :
        /\ result' = MergeStep(result, o)
        /\ outcomes' = Append(outcomes, o)
        /\ trail' = Append(trail, result')
        /\ tried' = tried + 1
        /\ pc' = AfterIteration(o, Breaks(result', o), tried', NumMethods(category))
    /\ UNCHANGED <<category, raw, produced, window, workers>>

SpecCpu == CpuInit /\ [][TryCpuMethod]_vars

\* the i-th invoked CPU method read the name and reached the extraction
Extracted(i) == outcomes[i].read /\ ReachesExtraction(i, raw)

\* C11: a method that extracts from a name containing "Intel" or "AMD"
\* reports a brand that is such a token occurring in the name and, as model,
\* the name with that token removed and trimmed; from a name with neither
\* token it reports the whole name as model and brand "Não disponível"; and
\* when the first method returns all-unavailable and the second works on
\* "Intel Core i7-9700", get_cpu_info returns brand "Intel", model
\* "Core i7-9700".
C11_CpuBrandModel ==
    /\ \A i \in 1..Len(outcomes) :
        Extracted(i) =>
            LET name == FullName(i, raw)
                rec  == outcomes[i].rec
            IN  IF Contains(name, <<"I", "n", "t", "e", "l">>) \/ Contains(name, <<"A", "M", "D">>)
                THEN /\ rec.brand \in {<<"I", "n", "t", "e", "l">>, <<"A", "M", "D">>}
                     /\ Contains(name, rec.brand)
                     /\ rec.model = Strip(Remove(name, rec.brand))
                ELSE rec.brand = ND /\ rec.model = name
    /\ (/\ Len(outcomes) >= 2
        /\ Returned(outcomes[1]) /\ outcomes[1].rec = InitialCpu
        /\ Extracted(2) /\ FullName(2, raw) = <<"I", "n", "t", "e", "l", " ", "C", "o", "r", "e", " ", "i", "7", "-", "9", "7", "0", "0">>)
            => /\ pc = "done"
               /\ tried = 2
               /\ result = [brand |-> <<"I", "n", "t", "e", "l">>, model |-> <<"C", "o", "r", "e", " ", "i", "7", "-", "9", "7", "0", "0">>]

C11_Witness ==
    /\ pc = "done"
    /\ raw = <<"I", "n", "t", "e", "l", " ", "C", "o", "r", "e", " ", "i", "7", "-", "9", "7", "0", "0">>
    /\ Len(outcomes) = 2
    /\ Returned(outcomes[1]) /\ outcomes[1].rec = InitialCpu
    /\ Extracted(2)
    /\ result = [brand |-> <<"I", "n", "t", "e", "l">>, model |-> <<"C", "o", "r", "e", " ", "i", "7", "-", "9", "7", "0", "0">>]

(***************************************************************************)
(* The disk probes _get_disk_info_wmi and _get_disk_info_wmic on one       *)
(* physical disk.  Sizes are counted in GiB.                               *)
(***************************************************************************)

HDD == <<"H", "D", "D">>
SSD == <<"S", "S", "D">>
NVMe == <<"N", "V", "M", "e">>

\* "Determina o tipo de disco" of _get_disk_info_wmi: the model is looked at
\* only when MediaType is missing or empty
DiskTypeWmi(MediaType, Model) ==
    IF Truthy(MediaType)
    THEN IF Contains(Lower(MediaType), <<"s", "s", "d">>) \/ Contains(Lower(MediaType), <<"s", "o", "l", "i", "d", " ", "s", "t", "a", "t", "e">>)
         THEN SSD
         ELSE IF Contains(Lower(MediaType), <<"n", "v", "m", "e">>) THEN NVMe
         ELSE HDD
    ELSE IF Truthy(Model)
            /\ (Contains(Lower(Model), <<"s", "s", "d">>) \/ Contains(Lower(Model), <<"n", "v", "m", "e">>))
    THEN IF Contains(Lower(Model), <<"n", "v", "m", "e">>) THEN NVMe ELSE SSD
    ELSE HDD

\* "Determina o tipo de disco" of _get_disk_info_wmic: two ifs in sequence,
\* the second overrides the first
DiskTypeWmic(media_type, model) ==
    LET after_ssd == IF Contains(media_type, <<"s", "s", "d">>) \/ Contains(media_type, <<"s", "o", "l", "i", "d", " ", "s", "t", "a", "t", "e">>)
                        \/ Contains(model, <<"s", "s", "d">>)
                     THEN SSD ELSE HDD
    IN  IF Contains(media_type, <<"n", "v", "m", "e">>) \/ Contains(model, <<"n", "v", "m", "e">>) THEN NVMe ELSE after_ssd

\* f"{x:.2f} GB" for a whole number of GiB
FormatGB(gb) == DecStr(gb) \o <<".", "0", "0", " ", "G", "B">>

\* _get_disk_info_wmi: the dict appended for one Win32_DiskDrive object; a
\* missing or None attribute is the empty string (Size: 0), and FreeSpace is
\* the free space summed over the disk's partitions
WmiDisk(disk) ==
    [model      |-> IF Truthy(disk.Model) THEN Strip(disk.Model) ELSE ND,
     type       |-> DiskTypeWmi(disk.MediaType, disk.Model),
     size       |-> FormatGB(disk.Size),
     free_space |-> IF disk.FreeSpace > 0 THEN FormatGB(disk.FreeSpace) ELSE ND]

\* _get_disk_info_wmic: int(disk_data.get("size", 0)) raises ValueError for a
\* value that is no number, and the row is skipped by "continue"
WmicDiskKept(disk_data) ==
    "size" \notin DOMAIN disk_data \/ IntParses(disk_data["size"])

\* _get_disk_info_wmic: the dict appended for one row's disk_data
WmicDisk(disk_data) ==
    [model      |-> Get(disk_data, "model", ND),
     type       |-> DiskTypeWmic(Lower(Get(disk_data, "mediatype", Empty)),
                                 Lower(Get(disk_data, "model", Empty))),
     size       |-> FormatGB(IF "size" \in DOMAIN disk_data
                             THEN IntOf(disk_data["size"]) ELSE 0),
     free_space |-> ND]

\* "Atribui o espaço livre total ao primeiro disco (aproximação)"
WithFreeSpace(found, total_free_space_gb) ==
    IF found # <<>> /\ total_free_space_gb > 0
    THEN [found EXCEPT ![1].free_space = FormatGB(total_free_space_gb)]
    ELSE found

\* _get_disk_info_wmic on a table of one row
DiskWmicOneRow(disk_data, total_free_space_gb) ==
    WithFreeSpace(IF WmicDiskKept(disk_data) THEN <<WmicDisk(disk_data)>> ELSE <<>>,
                  total_free_space_gb)

\* MediaType values of Win32_DiskDrive
MediaTypes ==
    {<<>>, <<"F", "i", "x", "e", "d", " ", "h", "a", "r", "d", " ", "d", "i", "s", "k", " ", "m", "e", "d", "i", "a">>, <<"E", "x", "t", "e", "r", "n", "a", "l", " ", "h", "a", "r", "d", " ", "d", "i", "s", "k", " ", "m", "e", "d", "i", "a">>, <<"S", "S", "D">>,
     <<"S", "o", "l", "i", "d", " ", "S", "t", "a", "t", "e", " ", "D", "r", "i", "v", "e">>, <<"N", "V", "M", "e">>, <<"N", "V", "M", "e", " ", "S", "S", "D">>, <<"U", "n", "s", "p", "e", "c", "i", "f", "i", "e", "d">>}

\* Model values of Win32_DiskDrive
DiskModels ==
    {<<>>, <<"W", "D", "C", " ", "W", "D", "1", "0", "E", "Z", "E", "X">>, <<" ", "S", "T", "1", "0", "0", "0", "D", "M", "0", "1", "0", " ">>, <<"S", "a", "m", "s", "u", "n", "g", " ", "S", "S", "D", " ", "8", "6", "0", " ", "E", "V", "O">>,
     <<"S", "a", "m", "s", "u", "n", "g", " ", "N", "V", "M", "e", " ", "9", "7", "0">>, <<"K", "I", "N", "G", "S", "T", "O", "N", " ", "S", "N", "V", "2", "S", " ", "N", "V", "M", "e", " ", "S", "S", "D">>}

\* Size column of "wmic diskdrive get ...", in GiB
SizeTexts == {<<"5", "0", "0">>, <<>>, <<"5", "O", "O">>}

ProbeKinds == {"wmi", "wmic"}

DiskProbeInit ==
    /\ pc = "input"
    /\ raw \in [probe : ProbeKinds, MediaType : MediaTypes, Model : DiskModels,
                Size : SizeTexts, FreeSpace : {0, 100}]
    /\ produced = <<>>
    /\ category = "disks"
    /\ result = <<>>
    /\ tried = 0
    /\ outcomes = <<>>
    /\ trail = <<>>
    /\ NoWindow

\* the Win32_DiskDrive object the WMI client hands out for the disk
DiskObject(r) ==
    [Model |-> r.Model, MediaType |-> r.MediaType,
     Size |-> IF IntParses(r.Size) THEN IntOf(r.Size) ELSE 0, FreeSpace |-> r.FreeSpace]

\* the disk_data sliced from the disk's row: line[index:end_index].strip()
DiskData(r) ==
    [mediatype |-> Strip(r.MediaType), model |-> Strip(r.Model), size |-> Strip(r.Size)]

\* _get_disk_info_wmi with one physical disk
ProbeDiskWmi ==
    /\ pc = "input"
    /\ raw.probe = "wmi"
    /\ produced' = <<WmiDisk(DiskObject(raw))>>
    /\ pc' = "output"
    /\ UNCHANGED <<category, result, tried, outcomes, trail, raw, window, workers>>

\* _get_disk_info_wmic with one row
ProbeDiskWmic ==
    /\ pc = "input"
    /\ raw.probe = "wmic"
    /\ produced' = DiskWmicOneRow(DiskData(raw), raw.FreeSpace)
    /\ pc' = "output"
    /\ UNCHANGED <<category, result, tried, outcomes, trail, raw, window, workers>>

NextDiskProbe == ProbeDiskWmi \/ ProbeDiskWmic

SpecDiskProbe == DiskProbeInit /\ [][NextDiskProbe]_vars

SsdMarker(s) == Contains(Lower(s), <<"s", "s", "d">>) \/ Contains(Lower(s), <<"s", "o", "l", "i", "d", " ", "s", "t", "a", "t", "e">>)

NvmeMarker(s) == Contains(Lower(s), <<"n", "v", "m", "e">>)

\* C12: for a disk a probe classified: a media type containing "solid state",
\* with no NVMe marker, gives SSD; a model containing "nvme" with a present
\* media type holding no SSD or NVMe marker gives NVMe; no SSD or NVMe marker
\* in media type or model gives HDD.
C12_DiskTypeClassification ==
    (pc = "output" /\ produced # <<>>) =>
        /\ (/\ Contains(Lower(raw.MediaType), <<"s", "o", "l", "i", "d", " ", "s", "t", "a", "t", "e">>)
            /\ ~NvmeMarker(raw.MediaType) /\ ~NvmeMarker(raw.Model))
                => produced[1].type = SSD
        /\ (/\ NvmeMarker(raw.Model)
            /\ Truthy(raw.MediaType)
            /\ ~SsdMarker(raw.MediaType) /\ ~NvmeMarker(raw.MediaType))
                => produced[1].type = NVMe
        /\ (/\ ~SsdMarker(raw.MediaType) /\ ~NvmeMarker(raw.MediaType)
            /\ ~SsdMarker(raw.Model) /\ ~NvmeMarker(raw.Model))
                => produced[1].type = HDD

\* C13: for a disk a probe classified, an NVMe marker in the media type or
\* the model together with an SSD marker in the media type or the model
\* gives NVMe.
C13_NvmePrecedence ==
    (/\ pc = "output" /\ produced # <<>>
     /\ (NvmeMarker(raw.MediaType) \/ NvmeMarker(raw.Model))
     /\ (SsdMarker(raw.MediaType) \/ SsdMarker(raw.Model)))
        => produced[1].type = NVMe

(***************************************************************************)
(* The tables printed by wmic: a header line and a data row, sliced by the *)
(* offsets of the column names in the header                               *)
(***************************************************************************)

\* str.find(pat): the index (from 0) of the first occurrence, -1 when none
Find(s, pat) ==
    IF Contains(s, pat)
    THEN CHOOSE i \in 0..(Len(s) - Len(pat)) :
            /\ SubSeq(s, i + 1, i + Len(pat)) = pat
            /\ \A j \in 0..(i - 1) : SubSeq(s, j + 1, j + Len(pat)) # pat
    ELSE -1

\* s[a:b] for 0 <= a and 0 <= b
Slice(s, a, b) ==
    IF a >= Len(s) \/ b <= a THEN <<>>
    ELSE SubSeq(s, a + 1, IF b > Len(s) THEN Len(s) ELSE b)

\* the columns a probe asks for: the text it looks for in header.lower() and
\* the key it stores the value under
TableKeywords(probe) ==
    CASE probe = "motherboard" ->
            {[keyword |-> <<"m", "a", "n", "u", "f", "a", "c", "t", "u", "r", "e", "r">>, key |-> "manufacturer"],
             [keyword |-> <<"p", "r", "o", "d", "u", "c", "t">>, key |-> "model"],
             [keyword |-> <<"s", "e", "r", "i", "a", "l", "n", "u", "m", "b", "e", "r">>, key |-> "serial_number"]}
      [] probe = "disks" ->
            {[keyword |-> <<"m", "e", "d", "i", "a", "t", "y", "p", "e">>, key |-> "mediatype"],
             [keyword |-> <<"m", "o", "d", "e", "l">>, key |-> "model"],
             [keyword |-> <<"s", "i", "z", "e">>, key |-> "size"]}

\* the (index, key) pairs before sorting
ColumnIndices(probe, header) ==
    {[index |-> Find(Lower(header), k.keyword), key |-> k.key] : k \in TableKeywords(probe)}

\* sorted([...]) by index; pairs with equal index (-1, the columns not found)
\* are skipped by the slicing loop, so their relative order does not matter
RECURSIVE SortedIndices(_)
SortedIndices(pairs) ==
    IF pairs = {} THEN <<>>
    ELSE LET first == CHOOSE p \in pairs : \A q \in pairs : p.index <= q.index
         IN  <<first>> \o SortedIndices(pairs \ {first})

\* end_index = indices[i+1][0] if i + 1 < len(indices) and indices[i+1][0] >= 0
\*             else len(line)
EndIndex(indices, i, line) ==
    IF i + 1 <= Len(indices) /\ indices[i + 1].index >= 0
    THEN indices[i + 1].index ELSE Len(line)

\* the dict filled by "for i, (index, key) in enumerate(indices):" with
\* value = line[index:end_index].strip() for every index >= 0
SliceColumns(indices, line) ==
    LET found == {i \in DOMAIN indices : indices[i].index >= 0}
    IN  [key \in {indices[i].key : i \in found} |->
            LET i == CHOOSE j \in found : indices[j].key = key
            IN  Strip(Slice(line, indices[i].index, EndIndex(indices, i, line)))]

\* the lines of output.strip().split("\n") for an output of a header and one
\* data row
OutputLines(header, row) ==
    IF Strip(row) = <<>> THEN <<RStrip(header)>> ELSE <<header, RStrip(row)>>

\* _get_motherboard_info_wmic: header = lines[0], line = lines[1].strip(),
\* and "if value: result[key] = value"
MotherboardWmic(header, row) ==
    LET lines == OutputLines(header, row)
    IN  IF Len(lines) > 1
        THEN LET data == SliceColumns(SortedIndices(ColumnIndices("motherboard", lines[1])),
                                      Strip(lines[2]))
             IN  [key \in Fields("motherboard") |->
                    IF key \in DOMAIN data /\ Truthy(data[key]) THEN data[key] ELSE ND]
        ELSE InitialResult("motherboard")

\* _get_disk_info_wmic: the disk_data of the rows in lines[1:] that are not blank
DiskDataRows(header, row) ==
    LET lines == OutputLines(header, row)
    IN  IF Len(lines) > 1
        THEN <<SliceColumns(SortedIndices(ColumnIndices("disks", lines[1])), lines[2])>>
        ELSE <<>>

\* the name wmic prints in the header for a key
ColumnName(probe, key) ==
    CASE probe = "motherboard" /\ key = "manufacturer"  -> <<"M", "a", "n", "u", "f", "a", "c", "t", "u", "r", "e", "r">>
      [] probe = "motherboard" /\ key = "model"         -> <<"P", "r", "o", "d", "u", "c", "t">>
      [] probe = "motherboard" /\ key = "serial_number" -> <<"S", "e", "r", "i", "a", "l", "N", "u", "m", "b", "e", "r">>
      [] probe = "disks" /\ key = "mediatype"           -> <<"M", "e", "d", "i", "a", "T", "y", "p", "e">>
      [] probe = "disks" /\ key = "model"               -> <<"M", "o", "d", "e", "l">>
      [] probe = "disks" /\ key = "size"                -> <<"S", "i", "z", "e">>

TableKeys(probe) == {k.key : k \in TableKeywords(probe)}

\* the values a cell of the column can hold
CellValues(probe, key) ==
    CASE probe = "motherboard" /\ key = "manufacturer"  -> {<<>>, <<"A", "S", "U", "S">>}
      [] probe = "motherboard" /\ key = "model"         -> {<<>>, <<"P", "R", "I", "M", "E", " ", "B", "4", "5", "0", "M", "-", "A", " ", "I", "I">>}
      [] probe = "motherboard" /\ key = "serial_number" -> {<<>>, <<"S", "N", "1">>}
      [] probe = "disks" /\ key = "mediatype"           -> {<<>>, <<"F", "i", "x", "e", "d", " ", "h", "a", "r", "d", " ", "d", "i", "s", "k", " ", "m", "e", "d", "i", "a">>}
      [] probe = "disks" /\ key = "model"               -> {<<>>, <<"W", "D", "C", " ", "W", "D", "1", "0">>}
      [] probe = "disks" /\ key = "size"                -> {<<>>, <<"5", "0", "0">>}

\* the blanks wmic leaves between a column's widest text and the next column
PadWidths == {1, 2}

\* sequences without repetition over S
Orderings(S) == {s \in SeqsUpTo(S, Cardinality(S)) : \A i, j \in DOMAIN s : s[i] = s[j] => i = j}

Spaces(n) == [i \in 1..n |-> " "]

\* the width of the column of key k in a table with these cells
ColumnWidth(t, k) ==
    LET name == ColumnName(t.probe, k)
    IN  (IF Len(name) > Len(t.cells[k]) THEN Len(name) ELSE Len(t.cells[k])) + t.pad

PadTo(s, width) == s \o Spaces(width - Len(s))

\* the header line and the data row of a table
HeaderLine(t) == Flatten([i \in DOMAIN t.cols |-> PadTo(ColumnName(t.probe, t.cols[i]),
                                                        ColumnWidth(t, t.cols[i]))])

DataRow(t) == Flatten([i \in DOMAIN t.cols |-> PadTo(t.cells[t.cols[i]], ColumnWidth(t, t.cols[i]))])

\* tables of one data row: any order of any of the probe's columns
Tables ==
    UNION {[probe : {p}, cols : Orderings(TableKeys(p)) \ {<<>>},
            cells : {c \in [TableKeys(p) -> UNION {CellValues(p, k) : k \in TableKeys(p)}] :
                        \A k \in TableKeys(p) : c[k] \in CellValues(p, k)},
            pad : PadWidths] : p \in {"motherboard", "disks"}}

TableInit ==
    /\ pc = "input"
    /\ raw \in Tables
    /\ produced = <<>>
    /\ category = raw.probe
    /\ result = <<>>
    /\ tried = 0
    /\ outcomes = <<>>
    /\ trail = <<>>
    /\ NoWindow

\* _get_motherboard_info_wmic on the table
ParseMotherboardTable ==
    /\ pc = "input"
    /\ raw.probe = "motherboard"
    /\ produced' = <<MotherboardWmic(HeaderLine(raw), DataRow(raw))>>
    /\ pc' = "output"
    /\ UNCHANGED <<category, result, tried, outcomes, trail, raw, window, workers>>

\* the slicing loop of _get_disk_info_wmic on the table
ParseDiskTable ==
    /\ pc = "input"
    /\ raw.probe = "disks"
    /\ produced' = DiskDataRows(HeaderLine(raw), DataRow(raw))
    /\ pc' = "output"
    /\ UNCHANGED <<category, result, tried, outcomes, trail, raw, window, workers>>

NextTable == ParseMotherboardTable \/ ParseDiskTable

SpecTable == TableInit /\ [][NextTable]_vars

\* the offset of the i-th column of the table in its header and, past the
\* last column, the end of the line
OffsetOf(t, i) == SumSeq([j \in 1..(i - 1) |-> ColumnWidth(t, t.cols[j])])

\* the row substring under the i-th column, trimmed
CellUnder(t, i) == Strip(Slice(DataRow(t), OffsetOf(t, i), OffsetOf(t, i + 1)))

\* the row has a cell that is not blank
RowPresent(t) == \E i \in DOMAIN t.cols : t.cells[t.cols[i]] # Empty

\* C14: for a table whose row is not blank, every column of the table holds
\* the row substring from its header offset to the next column's offset (end
\* of line for the last one), trimmed (a blank substring leaving a field of
\* the motherboard record unavailable); a column absent from the header
\* leaves its own field unresolved and the others extracted.
C14_TabularParsing ==
    (pc = "output" /\ RowPresent(raw)) =>
        /\ produced # <<>>
        /\ \A i \in DOMAIN raw.cols :
            LET key == raw.cols[i]
            IN  IF raw.probe = "motherboard"
                THEN produced[1][key] =
                        IF CellUnder(raw, i) = Empty THEN ND ELSE CellUnder(raw, i)
                ELSE key \in DOMAIN produced[1] /\ produced[1][key] = CellUnder(raw, i)
        /\ \A key \in TableKeys(raw.probe) :
            (\A i \in DOMAIN raw.cols : raw.cols[i] # key) =>
                IF raw.probe = "motherboard"
                THEN produced[1][key] = ND
                ELSE key \notin DOMAIN produced[1]

(***************************************************************************)
(* Probes and their interfaces: the WMI client, the processes started with *)
(* check_output and Popen, and the text they print                         *)
(***************************************************************************)

\* how a started process ends
Fates == {"ok", "launch_fails", "nonzero_exit", "timeout", "undecodable"}

\* subprocess.check_output(..., universal_newlines=True, timeout=10) returns
\* only for a process that was launched, exited with status 0 in time and
\* printed decodable text; otherwise it raises
CheckOutputRaises(fate) == fate # "ok"

\* subprocess.Popen(...) raises when the process cannot be launched,
\* process.communicate(timeout=...) when the timeout expires or the output
\* cannot be decoded
CommunicateRaises(fate) == fate \in {"launch_fails", "timeout", "undecodable"}

\* faulty variant of ProcessSucceeded: the exit status is not looked at
ProcessSucceededAnyStatus(fate, stdout) == Truthy(Strip(stdout))

\* if process.returncode == 0 and stdout.strip():
ProcessSucceeded(fate, stdout) == fate # "nonzero_exit" /\ Truthy(Strip(stdout))

NewLine == <<"\n">>

Quote == <<"\"">>

\* s.split("\n")
RECURSIVE SplitLines(_)
SplitLines(s) ==
    IF \E i \in DOMAIN s : s[i] = "\n"
    THEN LET i == CHOOSE j \in DOMAIN s : s[j] = "\n" /\ \A k \in 1..(j - 1) : s[k] # "\n"
         IN  <<SubSeq(s, 1, i - 1)>> \o SplitLines(SubSeq(s, i + 1, Len(s)))
    ELSE <<s>>

\* line.split(":", 1)[1] for a line that contains ":"
AfterColon(line) == SubSeq(line, Find(line, <<":">>) + 2, Len(line))

RECURSIVE JoinWith(_, _)
JoinWith(parts, sep) ==
    IF parts = <<>> THEN <<>>
    ELSE IF Len(parts) = 1 THEN parts[1]
    ELSE parts[1] \o sep \o JoinWith(Tail(parts), sep)

\* the property names of the objects the PowerShell commands select, in the
\* order of Select-Object
JsonKeys ==
    <<"Name", "TpmReady", "TpmEnabled", "ManufacturerId", "ManufacturerVersion",
      "ManufacturerIdTxt">>

KeyText(key) ==
    CASE key = "Name"                -> <<"N", "a", "m", "e">>
      [] key = "TpmReady"            -> <<"T", "p", "m", "R", "e", "a", "d", "y">>
      [] key = "TpmEnabled"          -> <<"T", "p", "m", "E", "n", "a", "b", "l", "e", "d">>
      [] key = "ManufacturerId"      -> <<"M", "a", "n", "u", "f", "a", "c", "t", "u", "r", "e", "r", "I", "d">>
      [] key = "ManufacturerVersion" -> <<"M", "a", "n", "u", "f", "a", "c", "t", "u", "r", "e", "r", "V", "e", "r", "s", "i", "o", "n">>
      [] key = "ManufacturerIdTxt"   -> <<"M", "a", "n", "u", "f", "a", "c", "t", "u", "r", "e", "r", "I", "d", "T", "x", "t">>

\* a property value as ConvertTo-Json prints it: a string in quotes (null for
\* a missing one), a boolean, a number
JsonValueText(key, value) ==
    CASE key \in {"TpmReady", "TpmEnabled"} -> IF value THEN <<"t", "r", "u", "e">> ELSE <<"f", "a", "l", "s", "e">>
      [] key = "ManufacturerId"             -> IF value = 0 THEN <<"n", "u", "l", "l">> ELSE DecStr(value)
      [] OTHER                              -> IF value = Empty THEN <<"n", "u", "l", "l">>
                                               ELSE Quote \o value \o Quote

\* the keys of an object in the order they are printed
RECURSIVE KeysOf(_, _)
KeysOf(object, keys) ==
    IF keys = <<>> THEN <<>>
    ELSE IF Head(keys) \in DOMAIN object THEN <<Head(keys)>> \o KeysOf(object, Tail(keys))
    ELSE KeysOf(object, Tail(keys))

\* ConvertTo-Json of one object
ObjectJson(object) ==
    LET keys == KeysOf(object, JsonKeys)
    IN  <<"{">> \o NewLine
        \o JoinWith([i \in DOMAIN keys |->
                        <<" ", " ", " ", " ">> \o Quote \o KeyText(keys[i]) \o Quote \o <<":", " ", " ">>
                        \o JsonValueText(keys[i], object[keys[i]])],
                    <<",">> \o NewLine)
        \o NewLine \o <<"}">> \o NewLine

\* ConvertTo-Json of a pipeline of several objects
ListJson(objects) ==
    <<"[">> \o NewLine
    \o JoinWith([i \in DOMAIN objects |-> ObjectJson(objects[i])], <<",">> \o NewLine)
    \o <<"]">> \o NewLine

\* the same object as Format-List prints it: one "Key : value" per line
ObjectText(object) ==
    LET keys == KeysOf(object, JsonKeys)
    IN  JoinWith([i \in DOMAIN keys |->
                    KeyText(keys[i]) \o <<" ", ":", " ">>
                    \o (CASE keys[i] \in {"TpmReady", "TpmEnabled"} ->
                                IF object[keys[i]] THEN <<"T", "r", "u", "e">> ELSE <<"F", "a", "l", "s", "e">>
                          [] keys[i] = "ManufacturerId" ->
                                IF object[keys[i]] = 0 THEN Empty ELSE DecStr(object[keys[i]])
                          [] OTHER -> object[keys[i]])],
                 NewLine) \o NewLine

\* json.loads(stdout) over the values the commands can print: the value whose
\* JSON text is the output (surrounding whitespace is ignored); every other
\* text of the model is no JSON and raises json.JSONDecodeError
JsonDecodes(stdout, values) == \E v \in values : Strip(ObjectJson(v)) = Strip(stdout)

JsonDecodesList(stdout, lists) == \E l \in lists : Strip(ListJson(l)) = Strip(stdout)

JsonLoads(stdout, values) == CHOOSE v \in values : Strip(ObjectJson(v)) = Strip(stdout)

JsonLoadsList(stdout, lists) == CHOOSE l \in lists : Strip(ListJson(l)) = Strip(stdout)

\* result = {"version": ..., "status": ..., "manufacturer": ...}
InitialTpm == [version |-> ND, status |-> ND, manufacturer |-> ND]

\* _get_tpm_info_powershell: the fields taken from the parsed JSON object
TpmFromJson(data) ==
    [version      |-> IF "ManufacturerVersion" \in DOMAIN data /\ Truthy(data.ManufacturerVersion)
                      THEN data.ManufacturerVersion ELSE ND,
     status       |-> IF "TpmEnabled" \in DOMAIN data
                      THEN (IF data.TpmEnabled THEN <<"H", "a", "b", "i", "l", "i", "t", "a", "d", "o">> ELSE <<"D", "e", "s", "a", "b", "i", "l", "i", "t", "a", "d", "o">>)
                      ELSE IF "TpmReady" \in DOMAIN data
                      THEN (IF data.TpmReady THEN <<"P", "r", "o", "n", "t", "o">> ELSE <<"N", "ã", "o", " ", "p", "r", "o", "n", "t", "o">>)
                      ELSE ND,
     manufacturer |-> IF "ManufacturerIdTxt" \in DOMAIN data /\ Truthy(data.ManufacturerIdTxt)
                      THEN data.ManufacturerIdTxt
                      ELSE IF "ManufacturerId" \in DOMAIN data /\ data.ManufacturerId # 0
                      THEN DecStr(data.ManufacturerId)
                      ELSE ND]

\* _get_tpm_info_powershell: the if/elif chain of the text fallback on one line
TpmFromLine(acc, line) ==
    IF Contains(line, <<"M", "a", "n", "u", "f", "a", "c", "t", "u", "r", "e", "r", "V", "e", "r", "s", "i", "o", "n">>) /\ Contains(line, <<":">>)
    THEN [acc EXCEPT !.version = Strip(AfterColon(line))]
    ELSE IF Contains(line, <<"T", "p", "m", "E", "n", "a", "b", "l", "e", "d">>) /\ Contains(line, <<":">>)
    THEN [acc EXCEPT !.status = IF Lower(Strip(AfterColon(line))) = <<"t", "r", "u", "e">>
                                THEN <<"H", "a", "b", "i", "l", "i", "t", "a", "d", "o">> ELSE <<"D", "e", "s", "a", "b", "i", "l", "i", "t", "a", "d", "o">>]
    ELSE IF Contains(line, <<"M", "a", "n", "u", "f", "a", "c", "t", "u", "r", "e", "r", "I", "d", "T", "x", "t">>) /\ Contains(line, <<":">>)
    THEN [acc EXCEPT !.manufacturer = Strip(AfterColon(line))]
    ELSE IF Contains(line, <<"M", "a", "n", "u", "f", "a", "c", "t", "u", "r", "e", "r", "I", "d">>) /\ Contains(line, <<":">>)
    THEN [acc EXCEPT !.manufacturer = Strip(AfterColon(line))]
    ELSE acc

\* "for line in lines:" of the text fallback
RECURSIVE TpmFromLines(_, _)
TpmFromLines(acc, lines) ==
    IF lines = <<>> THEN acc ELSE TpmFromLines(TpmFromLine(acc, Head(lines)), Tail(lines))

\* objects Get-Tpm | Select-Object ... can yield
TpmObjects ==
    [ManufacturerVersion : {Empty, <<"7", ".", "2", ".", "0", ".", "1">>}, TpmEnabled : BOOLEAN,
     ManufacturerIdTxt : {Empty, <<"I", "F", "X">>}, ManufacturerId : {0, 1234}]
    \cup [ManufacturerVersion : {<<"7", ".", "2", ".", "0", ".", "1">>}, TpmReady : BOOLEAN,
          ManufacturerIdTxt : {Empty}, ManufacturerId : {0}]

\* _get_tpm_info_powershell
TpmPowershell(env) ==
    IF ~env.is_windows THEN InitialTpm
    ELSE IF CommunicateRaises(env.fate) THEN InitialTpm
    ELSE IF ~ProcessSucceeded(env.fate, env.stdout) THEN InitialTpm
    ELSE IF JsonDecodes(env.stdout, TpmObjects)
    THEN TpmFromJson(JsonLoads(env.stdout, TpmObjects))
    ELSE TpmFromLines(InitialTpm, SplitLines(Strip(env.stdout)))

\* objects Get-CimInstance Win32_VideoController | Select-Object Name can yield
GpuObjects == [Name : {<<"N", "V", "I", "D", "I", "A", " ", "G", "T", "X", " ", "1", "6", "5", "0">>, <<" ", "I", "n", "t", "e", "l", " ", "U", "H", "D", " ">>, <<" ">>}]

GpuLists == SeqsUpTo(GpuObjects, MaxEntities)

\* "for gpu in data:" of _get_gpu_info_powershell
RECURSIVE GpusFromJson(_)
GpusFromJson(data) ==
    IF data = <<>> THEN <<>>
    ELSE LET model == Strip(Head(data).Name)
         IN  (IF Truthy(model) THEN <<[model |-> model]>> ELSE <<>>) \o GpusFromJson(Tail(data))

\* _get_gpu_info_powershell: a JSON text that is no list is wrapped in one;
\* a text that is no JSON is reported by print and the list stays empty
GpuPowershell(env) ==
    IF ~env.is_windows THEN <<>>
    ELSE IF CommunicateRaises(env.fate) THEN <<>>
    ELSE IF ~ProcessSucceeded(env.fate, env.stdout) THEN <<>>
    ELSE IF JsonDecodesList(env.stdout, GpuLists)
    THEN GpusFromJson(JsonLoadsList(env.stdout, GpuLists))
    ELSE IF JsonDecodes(env.stdout, GpuObjects)
    THEN GpusFromJson(<<JsonLoads(env.stdout, GpuObjects)>>)
    ELSE <<>>

\* _get_motherboard_info_wmi: the three ifs on one Win32_BaseBoard object
BoardFields(acc, board) ==
    [manufacturer  |-> IF Truthy(board.Manufacturer) THEN Strip(board.Manufacturer)
                       ELSE acc.manufacturer,
     model         |-> IF Truthy(board.Product) THEN Strip(board.Product) ELSE acc.model,
     serial_number |-> IF Truthy(board.SerialNumber) THEN Strip(board.SerialNumber)
                       ELSE acc.serial_number]

\* "for board in self.wmi_client.Win32_BaseBoard():" with its break
RECURSIVE BoardsLoop(_, _)
BoardsLoop(acc, boards) ==
    IF boards = <<>> THEN acc
    ELSE IF BoardFields(acc, Head(boards)).model # ND THEN BoardFields(acc, Head(boards))
    ELSE BoardsLoop(BoardFields(acc, Head(boards)), Tail(boards))

\* _get_motherboard_info_wmi; env.query_raises: Win32_BaseBoard() raises
MotherboardWmi(env) ==
    IF ~env.wmi_client \/ ~env.is_windows THEN InitialResult("motherboard")
    ELSE IF env.query_raises THEN InitialResult("motherboard")
    ELSE BoardsLoop(InitialResult("motherboard"), env.boards)

\* the dicts appended by "for line in lines[1:]:" of _get_disk_info_wmic
RECURSIVE WmicDisks(_)
WmicDisks(rows) ==
    IF rows = <<>> THEN <<>>
    ELSE (IF WmicDiskKept(Head(rows)) THEN <<WmicDisk(Head(rows))>> ELSE <<>>)
         \o WmicDisks(Tail(rows))

\* _get_disk_info_wmic: the diskdrive command, then the logicaldisk command
\* in a try block of its own
DiskWmic(env) ==
    IF ~env.is_windows THEN <<>>
    ELSE IF CheckOutputRaises(env.first) THEN <<>>
    ELSE IF CheckOutputRaises(env.second) THEN WmicDisks(env.rows)
    ELSE WithFreeSpace(WmicDisks(env.rows), env.free)

\* result = {"adapter_name": ..., "adapter_status": ..., "connected_ssid": ...}
InitialWifi == [adapter_name |-> ND, adapter_status |-> ND, connected_ssid |-> ND]

\* status_map.get(NetConnectionStatus, "Desconhecido")
StatusMap(code) ==
    CASE code = 0  -> <<"D", "e", "s", "c", "o", "n", "e", "c", "t", "a", "d", "o">>
      [] code = 1  -> <<"C", "o", "n", "e", "c", "t", "a", "n", "d", "o">>
      [] code = 2  -> <<"C", "o", "n", "e", "c", "t", "a", "d", "o">>
      [] code = 3  -> <<"D", "e", "s", "c", "o", "n", "e", "c", "t", "a", "n", "d", "o">>
      [] code = 4  -> <<"H", "a", "r", "d", "w", "a", "r", "e", " ", "n", "ã", "o", " ", "p", "r", "e", "s", "e", "n", "t", "e">>
      [] code = 5  -> <<"H", "a", "r", "d", "w", "a", "r", "e", " ", "d", "e", "s", "a", "b", "i", "l", "i", "t", "a", "d", "o">>
      [] code = 6  -> <<"E", "r", "r", "o", " ", "d", "e", " ", "h", "a", "r", "d", "w", "a", "r", "e">>
      [] code = 7  -> <<"M", "í", "d", "i", "a", " ", "d", "e", "s", "c", "o", "n", "e", "c", "t", "a", "d", "a">>
      [] code = 8  -> <<"A", "u", "t", "e", "n", "t", "i", "c", "a", "n", "d", "o">>
      [] code = 9  -> <<"A", "u", "t", "e", "n", "t", "i", "c", "a", "ç", "ã", "o", " ", "b", "e", "m", "-", "s", "u", "c", "e", "d", "i", "d", "a">>
      [] code = 10 -> <<"F", "a", "l", "h", "a", " ", "n", "a", " ", "a", "u", "t", "e", "n", "t", "i", "c", "a", "ç", "ã", "o">>
      [] code = 11 -> <<"E", "n", "d", "e", "r", "e", "ç", "o", " ", "i", "n", "v", "á", "l", "i", "d", "o">>
      [] code = 12 -> <<"C", "r", "e", "d", "e", "n", "c", "i", "a", "i", "s", " ", "n", "e", "c", "e", "s", "s", "á", "r", "i", "a", "s">>
      [] OTHER     -> <<"D", "e", "s", "c", "o", "n", "h", "e", "c", "i", "d", "o">>

\* _get_wifi_info_wmi: the body of the loop for the first adapter whose
\* description contains "wireless"; the SSID query has a try block of its
\* own whose handler is "pass"
WirelessAdapter(adapter, ssid_query) ==
    [adapter_name   |-> Strip(adapter.Description),
     adapter_status |-> StatusMap(adapter.NetConnectionStatus),
     connected_ssid |-> IF ssid_query.raises \/ ssid_query.ssid = Empty
                        THEN ND ELSE ssid_query.ssid]

RECURSIVE AdaptersLoop(_, _)
AdaptersLoop(adapters, ssid_query) ==
    IF adapters = <<>> THEN InitialWifi
    ELSE IF Contains(Lower(Head(adapters).Description), <<"w", "i", "r", "e", "l", "e", "s", "s">>)
    THEN WirelessAdapter(Head(adapters), ssid_query)
    ELSE AdaptersLoop(Tail(adapters), ssid_query)

\* _get_wifi_info_wmi; env.query_raises: Win32_NetworkAdapterConfiguration() raises
WifiWmi(env) ==
    IF ~env.wmi_client \/ ~env.is_windows THEN InitialWifi
    ELSE IF env.query_raises THEN InitialWifi
    ELSE AdaptersLoop(env.adapters, env.ssid_query)

\* Win32_NetworkAdapterConfiguration objects with the NetConnectionStatus of
\* their Win32_NetworkAdapter
AdapterObjects ==
    [Description : {<<"I", "n", "t", "e", "l", "(", "R", ")", " ", "W", "i", "r", "e", "l", "e", "s", "s", "-", "A", "C", " ", "9", "5", "6", "0", " ">>, <<"R", "e", "a", "l", "t", "e", "k", " ", "P", "C", "I", "e", " ", "G", "b", "E">>},
     NetConnectionStatus : {2, 7, 13}]

\* the SSID query: it raises, or yields the SSID (none when the list is empty)
SsidQueries ==
    [raises : {TRUE}, ssid : {Empty}] \cup [raises : {FALSE}, ssid : {Empty, <<"c", "a", "s", "a">>}]

\* _get_ram_info_wmic with its process
RamWmicProbe(env) ==
    IF ~env.is_windows THEN InitialRam
    ELSE IF CheckOutputRaises(env.fate) THEN InitialRam
    ELSE RamWmic(env.rows)

\* Win32_BaseBoard objects
BoardObjects ==
    [Manufacturer : {Empty, <<" ", "A", "S", "U", "S", " ">>}, Product : {Empty, <<"P", "R", "I", "M", "E", " ", "B", "4", "5", "0", "M", "-", "A", " ", "I", "I">>},
     SerialNumber : {Empty, <<"S", "N", "1">>}]

\* rows of "wmic diskdrive get model,size,mediatype"
DiskRows ==
    {[mediatype |-> <<"F", "i", "x", "e", "d", " ", "h", "a", "r", "d", " ", "d", "i", "s", "k", " ", "m", "e", "d", "i", "a">>, model |-> <<"W", "D", "C", " ", "W", "D", "1", "0", "E", "Z", "E", "X">>, size |-> <<"1", "0", "0", "0">>],
     [mediatype |-> <<"S", "S", "D">>, model |-> <<"S", "a", "m", "s", "u", "n", "g", " ", "S", "S", "D", " ", "8", "6", "0", " ", "E", "V", "O">>, size |-> <<"5", "0", "0">>],
     [mediatype |-> <<"F", "i", "x", "e", "d", " ", "h", "a", "r", "d", " ", "d", "i", "s", "k", " ", "m", "e", "d", "i", "a">>, model |-> <<"S", "T", "1", "0", "0", "0", "D", "M", "0", "1", "0">>, size |-> <<>>]}

\* what the TPM command can print
TpmTexts ==
    {ObjectJson(o) : o \in TpmObjects} \cup {ObjectText(o) : o \in TpmObjects}
    \cup {Empty, NewLine, <<"G", "e", "t", "-", "T", "p", "m", " ", ":", " ", "A", "c", "c", "e", "s", "s", " ", "d", "e", "n", "i", "e", "d">>}

\* what the video controller command can print
GpuTexts ==
    {ObjectJson(o) : o \in GpuObjects} \cup {ListJson(l) : l \in GpuLists \ {<<>>}}
    \cup {ObjectText(o) : o \in GpuObjects} \cup {Empty, <<"A", "c", "c", "e", "s", "s", " ", "d", "e", "n", "i", "e", "d">>}

\* a probe and what its interface does when the probe runs
ProbeEnvs ==
    [probe : {"tpm_powershell"}, is_windows : BOOLEAN, fate : Fates, stdout : TpmTexts]
    \cup [probe : {"gpu_powershell"}, is_windows : BOOLEAN, fate : Fates, stdout : GpuTexts]
    \cup [probe : {"motherboard_wmi"}, wmi_client : BOOLEAN, is_windows : BOOLEAN,
          query_raises : BOOLEAN, boards : SeqsUpTo(BoardObjects, MaxEntities)]
    \cup [probe : {"disk_wmic"}, is_windows : BOOLEAN, first : Fates, second : Fates,
          rows : SeqsUpTo(DiskRows, MaxEntities), free : {0, 100}]
    \cup [probe : {"wifi_wmi"}, wmi_client : BOOLEAN, is_windows : BOOLEAN,
          query_raises : BOOLEAN, adapters : SeqsUpTo(AdapterObjects, MaxEntities),
          ssid_query : SsidQueries]
    \cup [probe : {"ram_wmic"}, is_windows : BOOLEAN, fate : Fates,
          rows : SeqsUpTo(WmicRows, MaxEntities)]

ProbesInit ==
    /\ pc = "input"
    /\ raw \in ProbeEnvs
    /\ produced = <<>>
    /\ category = raw.probe
    /\ result = <<>>
    /\ tried = 0
    /\ outcomes = <<>>
    /\ trail = <<>>
    /\ NoWindow

\* every probe's body is one try block whose handler prints and falls
\* through to "return result"
RunTpmPowershell ==
    /\ pc = "input" /\ raw.probe = "tpm_powershell"
    /\ produced' = TpmPowershell(raw)
    /\ pc' = "output"
    /\ UNCHANGED <<category, result, tried, outcomes, trail, raw, window, workers>>

RunGpuPowershell ==
    /\ pc = "input" /\ raw.probe = "gpu_powershell"
    /\ produced' = GpuPowershell(raw)
    /\ pc' = "output"
    /\ UNCHANGED <<category, result, tried, outcomes, trail, raw, window, workers>>

RunMotherboardWmi ==
    /\ pc = "input" /\ raw.probe = "motherboard_wmi"
    /\ produced' = MotherboardWmi(raw)
    /\ pc' = "output"
    /\ UNCHANGED <<category, result, tried, outcomes, trail, raw, window, workers>>

RunDiskWmic ==
    /\ pc = "input" /\ raw.probe = "disk_wmic"
    /\ produced' = DiskWmic(raw)
    /\ pc' = "output"
    /\ UNCHANGED <<category, result, tried, outcomes, trail, raw, window, workers>>

RunWifiWmi ==
    /\ pc = "input" /\ raw.probe = "wifi_wmi"
    /\ produced' = WifiWmi(raw)
    /\ pc' = "output"
    /\ UNCHANGED <<category, result, tried, outcomes, trail, raw, window, workers>>

RunRamWmic ==
    /\ pc = "input" /\ raw.probe = "ram_wmic"
    /\ produced' = RamWmicProbe(raw)
    /\ pc' = "output"
    /\ UNCHANGED <<category, result, tried, outcomes, trail, raw, window, workers>>

NextProbes ==
    \/ RunTpmPowershell \/ RunGpuPowershell \/ RunMotherboardWmi
    \/ RunDiskWmic \/ RunWifiWmi \/ RunRamWmic

SpecProbes == ProbesInit /\ [][NextProbes]_vars

\* the value a probe returns when it found nothing
AllUnavailable(probe) ==
    CASE probe = "tpm_powershell"  -> InitialTpm
      [] probe = "gpu_powershell"  -> <<>>
      [] probe = "motherboard_wmi" -> InitialResult("motherboard")
      [] probe = "disk_wmic"       -> <<>>
      [] probe = "wifi_wmi"        -> InitialWifi
      [] probe = "ram_wmic"        -> InitialRam

\* the probe's interface is absent, or its query or its first process fails
PrimaryFailure(env) ==
    CASE env.probe \in {"tpm_powershell", "gpu_powershell", "ram_wmic"} ->
            ~env.is_windows \/ env.fate # "ok"
      [] env.probe \in {"motherboard_wmi", "wifi_wmi"} ->
            ~env.wmi_client \/ ~env.is_windows \/ env.query_raises
      [] env.probe = "disk_wmic" ->
            ~env.is_windows \/ env.first # "ok"

\* a query the probe makes after its first one fails: the free-space command
\* of the WMIC disk probe, the SSID query of the WMI Wi-Fi probe
SecondaryFailure(env) ==
    CASE env.probe = "disk_wmic" -> env.second # "ok"
      [] env.probe = "wifi_wmi"  -> env.ssid_query.raises
      [] OTHER                   -> FALSE

\* the same run with the secondary query answering that it found nothing
WithoutSecondary(env) ==
    CASE env.probe = "disk_wmic" -> [env EXCEPT !.second = "ok", !.free = 0]
      [] env.probe = "wifi_wmi"  -> [env EXCEPT !.ssid_query = [raises |-> FALSE, ssid |-> Empty]]
      [] OTHER                   -> env

\* what the probe returns for an environment
ProbeValue(env) ==
    CASE env.probe = "tpm_powershell"  -> TpmPowershell(env)
      [] env.probe = "gpu_powershell"  -> GpuPowershell(env)
      [] env.probe = "motherboard_wmi" -> MotherboardWmi(env)
      [] env.probe = "disk_wmic"       -> DiskWmic(env)
      [] env.probe = "wifi_wmi"        -> WifiWmi(env)
      [] env.probe = "ram_wmic"        -> RamWmicProbe(env)

RowsRead(env) ==
    /\ env.probe \in {"disk_wmic", "ram_wmic"}
    /\ env.is_windows
    /\ (IF env.probe = "disk_wmic" THEN env.first ELSE env.fate) = "ok"

\* C18: in the memorychip and diskdrive tables every data row yields an
\* entity, in order, with the row's other fields; a row whose numeric column
\* does not parse has only its numeric-derived field (size) unresolved.
C18_NumericDecodeFailureKeepsRow ==
    (pc = "output" /\ RowsRead(raw)) =>
        LET entities == IF raw.probe = "disk_wmic" THEN produced ELSE produced.modules
        IN  /\ Len(entities) = Len(raw.rows)
            /\ \A i \in DOMAIN raw.rows :
                /\ raw.probe = "disk_wmic" =>
                    /\ entities[i].model = raw.rows[i].model
                    /\ IntParses(raw.rows[i].size) \/ entities[i].size = ND
                /\ raw.probe = "ram_wmic" =>
                    /\ entities[i].speed = raw.rows[i].speed \o <<" ", "M", "H", "z">>
                    /\ IntParses(raw.rows[i].capacity) \/ entities[i].size = ND

\* the lines of the output that name a key, with ":"
KeyLines(stdout, key) ==
    LET lines == SplitLines(Strip(stdout))
    IN  {i \in DOMAIN lines : Contains(lines[i], key) /\ Contains(lines[i], <<":">>)}

\* the probe's process ended with status 0 and printed something
Printed(env) ==
    /\ env.probe \in {"tpm_powershell", "gpu_powershell"}
    /\ env.is_windows
    /\ env.fate = "ok"
    /\ Truthy(Strip(env.stdout))

IsJson(env) ==
    IF env.probe = "tpm_powershell" THEN JsonDecodes(env.stdout, TpmObjects)
    ELSE JsonDecodes(env.stdout, GpuObjects) \/ JsonDecodesList(env.stdout, GpuLists)

\* C19: for the PowerShell probes: output that parses as a single object is
\* treated as a list of that one object; output that is no JSON is read line
\* by line, a line with a known key giving the trimmed text after its first
\* ":"; output where both yield nothing gives the empty or all-unavailable
\* value; no error leaves the probe.
C19_StructuredOutputFallback ==
    /\ pc # "raised"
    /\ (pc = "output" /\ Printed(raw)) =>
        /\ (raw.probe = "gpu_powershell" /\ JsonDecodes(raw.stdout, GpuObjects))
                => produced = GpusFromJson(<<JsonLoads(raw.stdout, GpuObjects)>>)
        /\ (raw.probe = "tpm_powershell" /\ ~IsJson(raw)) =>
                \A i \in KeyLines(raw.stdout, <<"M", "a", "n", "u", "f", "a", "c", "t", "u", "r", "e", "r", "V", "e", "r", "s", "i", "o", "n">>) :
                    \E j \in KeyLines(raw.stdout, <<"M", "a", "n", "u", "f", "a", "c", "t", "u", "r", "e", "r", "V", "e", "r", "s", "i", "o", "n">>) :
                        produced.version = Strip(AfterColon(SplitLines(Strip(raw.stdout))[j]))
        /\ (raw.probe = "gpu_powershell" /\ ~IsJson(raw)) =>
                \A i \in KeyLines(raw.stdout, <<"N", "a", "m", "e">>) :
                    Truthy(Strip(AfterColon(SplitLines(Strip(raw.stdout))[i]))) =>
                        \E n \in DOMAIN produced :
                            produced[n].model =
                                Strip(AfterColon(SplitLines(Strip(raw.stdout))[i]))
        /\ (/\ ~IsJson(raw)
            /\ \A k \in DOMAIN JsonKeys : KeyLines(raw.stdout, KeyText(JsonKeys[k])) = {})
                => produced = AllUnavailable(raw.probe)

\* ---------------------------------------------------------------------------
\* The main window: the scheduled collection, the refresh button and the
\* collect_info thread (src/gui/main_window.py)
\* ---------------------------------------------------------------------------

\* the categories in the order collect_info and get_all_info collect them
Categories ==
    <<"motherboard", "cpu", "ram", "disks", "gpu", "display", "tpm", "bluetooth", "wifi">>

\* methods = [...] of each collector; get_display_info has no list of methods
Methods(c) ==
    CASE c = "motherboard" -> <<"_get_motherboard_info_wmi", "_get_motherboard_info_wmic",
                                "_get_motherboard_info_registry">>
      [] c = "cpu"         -> <<"_get_cpu_info_cpuinfo", "_get_cpu_info_wmi",
                                "_get_cpu_info_wmic", "_get_cpu_info_registry">>
      [] c = "ram"         -> <<"_get_ram_info_powershell_cim", "_get_ram_info_wmi",
                                "_get_ram_info_wmic", "_get_ram_info_psutil">>
      [] c = "disks"       -> <<"_get_disk_info_wmi", "_get_disk_info_wmic",
                                "_get_disk_info_psutil">>
      [] c = "gpu"         -> <<"_get_gpu_info_wmi", "_get_gpu_info_wmic",
                                "_get_gpu_info_powershell">>
      [] c = "display"     -> <<>>
      [] c = "tpm"         -> <<"_get_tpm_info_wmi", "_get_tpm_info_powershell",
                                "_get_tpm_info_tpmtool">>
      [] c = "bluetooth"   -> <<"_get_bluetooth_info_wmi", "_get_bluetooth_info_wmic",
                                "_get_bluetooth_info_powershell">>
      [] c = "wifi"        -> <<"_get_wifi_info_wmi", "_get_wifi_info_netsh",
                                "_get_wifi_info_powershell">>

\* the collectors whose loop has a break: the scalar ones and get_ram_info
HasBreak(c) == c \in ScalarCategories \cup {"ram"}

\* a variant that takes the method just tried again
NextMethodRetried(c, done) == Methods(c)[IF done > 0 THEN done ELSE 1]

\* for method in methods: the method the loop takes after `done` iterations
NextMethod(c, done) == Methods(c)[done + 1]

\* the refresh clicks a behaviour may hold
MaxClicks == 2

\* a variant in which the flag is never seen as set
RunningNeverSeen(win) == FALSE

\* if self.hardware_collection_running: the test both handlers start with
Running(win) == win.hardware_collection_running

\* a variant in which a pass already started does not stop a call
AlreadyStartedIgnored(win, force) == FALSE

\* if self.hardware_collection_started and not force
AlreadyStarted(win, force) == win.hardware_collection_started /\ ~force

\* the categories shown in StringVars, a frame or the disk tree; the GPUs have
\* the rows of gpu_tree
ShownCategories == {Categories[i] : i \in DOMAIN Categories} \ {"gpu"}

\* __init__: both flags False, the button as created, root.after(100, ...)
\* pending, every value "Carregando..." and the trees empty
InitialWindow ==
    [hardware_collection_started |-> FALSE,
     hardware_collection_running |-> FALSE,
     refresh_button |-> "normal",
     scheduled |-> TRUE,
     callbacks |-> <<>>,
     messages |-> 0,
     clicks |-> 0,
     status_var |-> "Inicializando...",
     shown |-> [c \in ShownCategories |-> "Carregando..."],
     gpu_tree |-> <<>>]

\* _reset_hardware_info_display
ResetHardwareInfoDisplay(win) ==
    [win EXCEPT !.shown = [c \in ShownCategories |-> "Carregando..."],
                !.gpu_tree = <<>>]

\* the locals of a collect_info thread that has just been started, with the
\* flags and the argument of the call that started it
NewWorker(win, force) ==
    [pc |-> "collect", collected |-> <<>>, tried |-> 0, invoked |-> <<>>,
     done |-> FALSE, gpu_info |-> <<>>, gpu_posted |-> FALSE,
     force |-> force,
     started_at_start |-> win.hardware_collection_started,
     running_at_start |-> win.hardware_collection_running]

\* a thread that has ended has no locals; what it was started with is kept
Finished(worker) ==
    [worker EXCEPT !.pc = "finished", !.collected = <<>>, !.tried = 0,
                   !.invoked = <<>>, !.done = FALSE,
                   !.gpu_info = <<>>, !.gpu_posted = FALSE]

\* _collect_hardware_info(force): the window it leaves and whether it started a thread
CollectHardwareInfo(win, force) ==
    IF Running(win)
    THEN [window |-> win, started |-> FALSE]
    ELSE IF AlreadyStarted(win, force)
    THEN [window |-> win, started |-> FALSE]
    ELSE [window |-> [win EXCEPT !.hardware_collection_started = TRUE,
                                 !.hardware_collection_running = TRUE,
                                 !.status_var = "Coletando informações de hardware...",
                                 !.refresh_button = "disabled"],
          started |-> TRUE]

\* _refresh_hardware_info: the command of the refresh button
RefreshHardwareInfo(win) ==
    IF Running(win)
    THEN [window |-> [win EXCEPT !.messages = @ + 1], started |-> FALSE]
    ELSE CollectHardwareInfo(
            ResetHardwareInfoDisplay(
                [win EXCEPT !.refresh_button = "disabled",
                            !.status_var = "Atualizando informações de hardware..."]),
            TRUE)

WindowInit ==
    /\ pc = "window"
    /\ category = "none"
    /\ result = <<>>
    /\ tried = 0
    /\ outcomes = <<>>
    /\ trail = <<>>
    /\ raw = <<>>
    /\ produced = <<>>
    /\ window = InitialWindow
    /\ workers = <<>>

\* what every action of the window leaves alone
CollectorsUnchanged == UNCHANGED <<pc, category, result, tried, outcomes, trail, raw, produced>>

\* Tk runs the callback of root.after(100, self._collect_hardware_info)
ScheduledCollect ==
    /\ pc = "window"
    /\ window.scheduled
    /\ LET call == CollectHardwareInfo([window EXCEPT !.scheduled = FALSE], FALSE)
       IN  /\ window' = call.window
           /\ workers' = IF call.started
                         THEN Append(workers, NewWorker(window, FALSE)) ELSE workers
    /\ CollectorsUnchanged

\* the user clicks the refresh button, which Tk allows while it is not disabled
RefreshClick ==
    /\ pc = "window"
    /\ window.refresh_button = "normal"
    /\ window.clicks < MaxClicks
    /\ LET call == RefreshHardwareInfo([window EXCEPT !.clicks = @ + 1])
       IN  /\ window' = call.window
           /\ workers' = IF call.started
                         THEN Append(workers, NewWorker(window, TRUE)) ELSE workers
    /\ CollectorsUnchanged

\* the collector the thread is in, or is about to call
Current(worker) == Categories[Len(worker.collected) + 1]

\* what a method of get_gpu_info does on the machine of the window: it raises,
\* or returns one video controller, named or not
GpuMethodOutcomes ==
    {[raises |-> TRUE, truthy |-> FALSE, rec |-> <<>>]}
    \cup {[raises |-> FALSE, truthy |-> TRUE, rec |-> <<[model |-> name]>>] :
            name \in {<<"G", "p", "u">>, ND}}

\* one iteration of `for method in methods` inside the collector the thread called
WorkerInvoke ==
    /\ pc = "window"
    /\ \E w \in DOMAIN workers :
         LET worker == workers[w]
             c == Current(worker)
         IN  /\ worker.pc = "collect"
             /\ ~worker.done
             /\ worker.tried < Len(Methods(c))
             /\ \E breaks \in (IF HasBreak(c) THEN BOOLEAN ELSE {FALSE}) :
                \E o \in (IF c = "gpu" THEN GpuMethodOutcomes
                          ELSE {[raises |-> TRUE, truthy |-> FALSE, rec |-> <<>>]}) :
                  workers' = [workers EXCEPT ![w] =
                      [worker EXCEPT !.invoked = Append(@, NextMethod(c, worker.tried)),
                                     !.tried = @ + 1,
                                     !.done = breaks,
                                     !.gpu_info = IF c = "gpu" THEN MergeGpusStep(@, o) ELSE @]]
    /\ UNCHANGED window
    /\ CollectorsUnchanged

\* a callable handed to Tk with root.after(0, ...)
Callback(kind, c, g, i) == [kind |-> kind, category |-> c, g |-> g, i |-> i]

NoEntity == [model |-> <<>>]

\* the root.after calls that follow the call of collector c: the values of the
\* category; for the GPUs the emptying of gpu_tree and one insert for each
\* entity, with g=gpu and i=i bound when the lambda is made; after the last
\* category the status line
PostsAfter(c, gpu_info) ==
    (IF c = "gpu"
     THEN <<Callback("gpu_tree_delete", c, NoEntity, 0)>>
          \o [n \in DOMAIN gpu_info |-> Callback("gpu_tree_insert", c, gpu_info[n], n - 1)]
     ELSE <<Callback("show", c, NoEntity, 0)>>)
    \o (IF c = Categories[Len(Categories)]
        THEN <<Callback("status_collected", c, NoEntity, 0)>>
        ELSE <<>>)

\* the collector returns (after a break or at the end of its list; get_display_info
\* at once), collect_info hands the values to Tk and goes on to the next
\* category, or to its finally
WorkerReturn ==
    /\ pc = "window"
    /\ \E w \in DOMAIN workers :
         LET worker == workers[w]
             c == Current(worker)
         IN  /\ worker.pc = "collect"
             /\ worker.done \/ worker.tried = Len(Methods(c))
             /\ workers' = [workers EXCEPT ![w] =
                    [worker EXCEPT !.collected = Append(@, c),
                                   !.tried = 0,
                                   !.invoked = <<>>,
                                   !.done = FALSE,
                                   !.gpu_posted = @ \/ c = "gpu",
                                   !.pc = IF Len(worker.collected) + 1 = Len(Categories)
                                          THEN "finally" ELSE "collect"]]
             /\ window' = [window EXCEPT !.callbacks = @ \o PostsAfter(c, worker.gpu_info)]
    /\ CollectorsUnchanged

\* a statement of the try block raises between two collectors: except Exception
\* hands Tk the status line with the error box, then finally
WorkerRaises ==
    /\ pc = "window"
    /\ \E w \in DOMAIN workers :
         /\ workers[w].pc = "collect"
         /\ workers[w].tried = 0
         /\ Len(workers[w].collected) > 0
         /\ workers' = [workers EXCEPT ![w].pc = "finally"]
         /\ window' = [window EXCEPT !.callbacks =
                          Append(@, Callback("status_error", "none", NoEntity, 0))]
    /\ CollectorsUnchanged

\* finally: the callbacks that enable the buttons again are handed to Tk
WorkerFinally ==
    /\ pc = "window"
    /\ \E w \in DOMAIN workers :
         /\ workers[w].pc = "finally"
         /\ workers' = [workers EXCEPT ![w].pc = "clear"]
         /\ window' = [window EXCEPT !.callbacks =
                          Append(@, Callback("refresh_button_normal", "none", NoEntity, 0))]
    /\ CollectorsUnchanged

\* finally: root.after raises, so the last statement is never reached
WorkerFinallyRaises ==
    /\ pc = "window"
    /\ \E w \in DOMAIN workers :
         /\ workers[w].pc = "finally"
         /\ workers' = [workers EXCEPT ![w] = Finished(workers[w])]
    /\ UNCHANGED window
    /\ CollectorsUnchanged

\* a variant in which the thread ends without the assignment
FlagLeftSet(win) == win

\* self.hardware_collection_running = False
FlagCleared(win) == [win EXCEPT !.hardware_collection_running = FALSE]

\* "Marca que a coleta terminou": the last statement of the thread
WorkerClear ==
    /\ pc = "window"
    /\ \E w \in DOMAIN workers :
         /\ workers[w].pc = "clear"
         /\ workers' = [workers EXCEPT ![w] = Finished(workers[w])]
         /\ window' = FlagCleared(window)
    /\ CollectorsUnchanged

\* Treeview.insert("", index, values=...): the row goes to place index, or to
\* the end when the tree has fewer rows
InsertRow(tree, index, values) ==
    IF index >= Len(tree) THEN Append(tree, values)
    ELSE SubSeq(tree, 1, index) \o <<values>> \o SubSeq(tree, index + 1, Len(tree))

\* values=(g.get('name', 'Não disponível'),)
GpuRowValues(g) == <<Get(g, "name", ND)>>

\* what a callable does to the window when the main loop calls it
Called(win, callback) ==
    CASE callback.kind = "show" ->
            [win EXCEPT !.shown[callback.category] = "collected"]
      [] callback.kind = "gpu_tree_delete" ->
            [win EXCEPT !.gpu_tree = <<>>]
      [] callback.kind = "gpu_tree_insert" ->
            [win EXCEPT !.gpu_tree = InsertRow(@, callback.i, GpuRowValues(callback.g))]
      [] callback.kind = "status_collected" ->
            [win EXCEPT !.status_var = "Informações de hardware coletadas com sucesso."]
      [] callback.kind = "status_error" ->
            [win EXCEPT !.status_var = "Erro ao coletar informações de hardware"]
      [] callback.kind = "refresh_button_normal" ->
            [win EXCEPT !.refresh_button = "normal"]

\* the main loop runs the oldest callback handed over with root.after(0, ...)
RunCallback ==
    /\ pc = "window"
    /\ window.callbacks # <<>>
    /\ window' = Called([window EXCEPT !.callbacks = Tail(@)], Head(window.callbacks))
    /\ UNCHANGED workers
    /\ CollectorsUnchanged

NextWindow ==
    \/ ScheduledCollect
    \/ RefreshClick
    \/ WorkerInvoke
    \/ WorkerReturn
    \/ WorkerRaises
    \/ WorkerFinally
    \/ WorkerFinallyRaises
    \/ WorkerClear
    \/ RunCallback

SpecWindow == WindowInit /\ [][NextWindow]_vars

\* a pass is in flight from the start of its thread to the thread's last statement
InFlight == {w \in DOMAIN workers : workers[w].pc # "finished"}

\* C16: whatever the interleaving of the scheduled collection, the refresh clicks
\* and the thread, at most one collection pass is in flight, and no thread was
\* started by a request that arrived while hardware_collection_running was set
C16_InFlightGuard ==
    pc = "window" =>
        /\ Cardinality(InFlight) <= 1
        /\ \A w \in DOMAIN workers : ~workers[w].running_at_start

\* a refresh click arrived while the pass was running and was turned away, a
\* later one started a second pass after the first had ended
C16_Witness ==
    /\ pc = "window"
    /\ window.messages > 0
    /\ Len(workers) = 2
    /\ workers[1].pc = "finished"
    /\ workers[2].pc = "collect"

\* s is the first Len(s) elements of list, in the order of list
IsPrefix(s, list) == Len(s) <= Len(list) /\ s = SubSeq(list, 1, Len(s))

\* C20: in a collection pass the categories are collected one at a time in the
\* order of collect_info, and inside a collector the methods invoked so far are a
\* prefix of its methods list, in that order, none of them invoked twice
C20_OrderingWithinPass ==
    pc = "window" =>
        /\ Cardinality({w \in DOMAIN workers : workers[w].pc = "collect"}) <= 1
        /\ \A w \in DOMAIN workers :
             LET worker == workers[w]
             IN  /\ IsPrefix(worker.collected, Categories)
                 /\ worker.pc = "collect" =>
                      /\ IsPrefix(worker.invoked, Methods(Current(worker)))
                      /\ Len(worker.invoked) = worker.tried
                      /\ \A i, j \in DOMAIN worker.invoked :
                           i # j => worker.invoked[i] # worker.invoked[j]

\* the thread has collected eight categories and the ninth collector has invoked
\* the second method of its list after the first
C20_Witness ==
    /\ pc = "window"
    /\ \E w \in DOMAIN workers :
         /\ workers[w].pc = "collect"
         /\ Len(workers[w].collected) = 8
         /\ workers[w].invoked = <<"_get_wifi_info_wmi", "_get_wifi_info_netsh">>

\* ---------------------------------------------------------------------------
\* get_all_info: the nine collectors called one after another
\* ---------------------------------------------------------------------------

Libraries == {"psutil", "cpuinfo", "screeninfo"}

\* try: import psutil; import cpuinfo; import screeninfo
\* except ImportError: psutil = None; cpuinfo = None; screeninfo = None
Imported(installed) == IF Libraries \subseteq installed THEN Libraries ELSE {}

\* the library a method returns early without ("if not psutil: return result")
Needs(c, i) ==
    IF c = "cpu" /\ i = 1 THEN "cpuinfo"
    ELSE IF c = "ram" /\ i = 4 THEN "psutil"
    ELSE IF c = "disks" /\ i = 3 THEN "psutil"
    ELSE "none"

\* what a method returns when its library is None: its untouched result
Unavailable(c) ==
    [raises |-> FALSE, truthy |-> c \notin ListCategories, rec |-> InitialOf(c)]

\* the method raises inside the try block of the collector's loop
Raising(c) == [raises |-> TRUE, truthy |-> FALSE, rec |-> InitialOf(c)]

\* a method that finds everything it looks for
Finding(c, i) ==
    [raises |-> FALSE, truthy |-> TRUE,
     rec |-> IF c \in ScalarCategories THEN [k \in Fields(c) |-> ValueX]
             ELSE IF c = "ram"
                  THEN (IF i = 4 THEN RamPsutil(8)
                        ELSE CHOOSE r \in RamRecords(i) : r.modules # <<>>)
             ELSE IF c = "disks"
                  THEN <<CHOOSE d \in DiskEntities : d.type = SSD /\ d.free_space = ND>>
             ELSE <<[model |-> <<"G", "p", "u">>]>>]

\* the collectors with a list of methods
Collectors == ScalarCategories \cup {"ram"} \cup ListCategories

\* what the methods of a collector would do on a host: all of them raise, or
\* exactly one finds the component (the first, or the one that needs a library)
CategoryRuns(c) ==
    {[i \in 1..NumMethods(c) |-> Raising(c)]}
    \cup {[i \in 1..NumMethods(c) |-> IF i = j THEN Finding(c, j) ELSE Raising(c)] :
            j \in {1} \cup {i \in 1..NumMethods(c) : Needs(c, i) # "none"}}

\* screeninfo.get_monitors(): raises, or the list of monitors
MonitorLists ==
    {<<>>,
     <<[width |-> 1920, height |-> 1080, is_primary |-> FALSE]>>,
     <<[width |-> 1366, height |-> 768, is_primary |-> FALSE],
       [width |-> 1920, height |-> 1080, is_primary |-> TRUE]>>}

\* the hosts get_all_info is called on
Hosts ==
    [installed : SUBSET Libraries,
     get_monitors : {[raises |-> TRUE, monitors |-> <<>>]}
                    \cup {[raises |-> FALSE, monitors |-> m] : m \in MonitorLists},
     runs : [motherboard : CategoryRuns("motherboard"),
             cpu : CategoryRuns("cpu"),
             ram : CategoryRuns("ram"),
             disks : CategoryRuns("disks"),
             gpu : CategoryRuns("gpu"),
             tpm : CategoryRuns("tpm"),
             bluetooth : CategoryRuns("bluetooth"),
             wifi : CategoryRuns("wifi")]]

\* what the i-th method of collector c does on the host
MethodOutcome(host, c, i) ==
    IF Needs(c, i) = "none" \/ Needs(c, i) \in Imported(host.installed)
    THEN host.runs[c][i]
    ELSE Unavailable(c)

\* the body of the try block of the collector's loop
CollectorStep(c, acc, o) ==
    IF c \in ScalarCategories THEN MergeStep(acc, o)
    ELSE IF c = "ram" THEN MergeRamStep(acc, o)
    ELSE IF c = "disks" THEN MergeDisksStep(acc, o)
    ELSE MergeGpusStep(acc, o)

\* the break of the collector's loop; get_disk_info and get_gpu_info have none
CollectorBreaks(c, acc, o) ==
    IF c \in ScalarCategories THEN Breaks(acc, o)
    ELSE IF c = "ram" THEN RamBreaks(acc, o)
    ELSE FALSE

\* for method in methods: ... from the i-th method on
RECURSIVE CollectFrom(_, _, _, _)
CollectFrom(host, c, i, acc) ==
    IF i > NumMethods(c) THEN acc
    ELSE LET o == MethodOutcome(host, c, i)
             merged == CollectorStep(c, acc, o)
         IN  IF CollectorBreaks(c, merged, o) THEN merged
             ELSE CollectFrom(host, c, i + 1, merged)

\* the first monitor with is_primary, else the first monitor, else None
PrimaryMonitor(monitors) ==
    IF \E i \in DOMAIN monitors : monitors[i].is_primary
    THEN <<monitors[CHOOSE i \in DOMAIN monitors :
                /\ monitors[i].is_primary
                /\ \A j \in 1..(i - 1) : ~monitors[j].is_primary]>>
    ELSE IF monitors # <<>> THEN <<monitors[1]>>
    ELSE <<>>

\* get_display_info
GetDisplayInfo(host) ==
    IF "screeninfo" \notin Imported(host.installed) THEN [resolution |-> ND]
    ELSE IF host.get_monitors.raises THEN [resolution |-> ND]
    ELSE IF PrimaryMonitor(host.get_monitors.monitors) = <<>> THEN [resolution |-> ND]
    ELSE [resolution |-> DecStr(PrimaryMonitor(host.get_monitors.monitors)[1].width) \o <<"x">>
                         \o DecStr(PrimaryMonitor(host.get_monitors.monitors)[1].height)]

\* self.get_<category>_info()
Accessor(host, c) ==
    IF c = "display" THEN GetDisplayInfo(host)
    ELSE CollectFrom(host, c, 1, InitialOf(c))

AllInfoInit ==
    /\ pc = "get_all_info"
    /\ category = "none"
    /\ result = <<>>
    /\ tried = 0
    /\ outcomes = <<>>
    /\ trail = <<>>
    /\ raw \in Hosts
    /\ produced = <<>>
    /\ NoWindow

\* info["<category>"] = self.get_<category>_info(), the next of the nine lines
AssignCategory ==
    /\ pc = "get_all_info"
    /\ tried < Len(Categories)
    /\ LET c == Categories[tried + 1]
       IN  /\ result' = [k \in DOMAIN result \cup {c} |->
                            IF k = c THEN Accessor(raw, c) ELSE result[k]]
           /\ category' = c
    /\ tried' = tried + 1
    /\ UNCHANGED <<pc, outcomes, trail, raw, produced, window, workers>>

\* return info
ReturnInfo ==
    /\ pc = "get_all_info"
    /\ tried = Len(Categories)
    /\ pc' = "returned"
    /\ produced' = result
    /\ UNCHANGED <<category, result, tried, outcomes, trail, raw, window, workers>>

NextAllInfo == AssignCategory \/ ReturnInfo

SpecAllInfo == AllInfoInit /\ [][NextAllInfo]_vars

\* the whole of get_all_info on a host
GetAllInfo(host) == [c \in {Categories[i] : i \in DOMAIN Categories} |-> Accessor(host, c)]

\* the hosts that differ from `host` in that every probe of category c fails
WithFailureOf(host, c) ==
    IF c = "display"
    THEN {[host EXCEPT !.get_monitors = [raises |-> TRUE, monitors |-> <<>>]],
          [host EXCEPT !.get_monitors = [raises |-> FALSE, monitors |-> <<>>]],
          [host EXCEPT !.installed = @ \ {"screeninfo"}]}
    ELSE {[host EXCEPT !.runs[c] = [i \in 1..NumMethods(c) |-> Raising(c)]]}

\* C17: get_all_info returns a mapping with exactly the nine category keys, each
\* holding what its accessor returns, and on a host where every probe of one
\* category fails the other eight entries are what they are without that failure
C17_SnapshotIndependence ==
    pc = "returned" =>
        /\ DOMAIN produced = {Categories[i] : i \in DOMAIN Categories}
        /\ \A c \in DOMAIN produced :
             /\ produced[c] = Accessor(raw, c)
             /\ \A failing \in WithFailureOf(raw, c) :
                  \A d \in DOMAIN produced \ {c} : GetAllInfo(failing)[d] = produced[d]

\* every field of every entity collected so far is resolved
EntitiesComplete(entities) ==
    /\ entities # <<>>
    /\ \A n \in DOMAIN entities : \A f \in DOMAIN entities[n] : Resolved(entities[n][f])

\* C21: in get_disk_info and get_gpu_info no method is invoked after the one
\* whose merge left every field of every collected entity resolved.
C21_ListEarlyExit ==
    category \in ListCategories =>
        \A i \in 1..Len(trail) :
            EntitiesComplete(trail[i]) => (i = Len(trail) /\ pc = "done")

\* the number of characters an entry of the pattern table looks for
RECURSIVE TotalLength(_)
TotalLength(patterns) ==
    IF patterns = {} THEN 0
    ELSE LET pat == CHOOSE x \in patterns : TRUE
         IN  Len(pat) + TotalLength(patterns \ {pat})

PatternLength(n) == TotalLength(PatternTable[n].needs)

\* C22: when the manufacturer is taken from the part number, a pattern of
\* another vendor that occurs in the part number is never longer than every
\* occurring pattern of the vendor returned (the more specific pattern wins over
\* the shorter ones, whatever their place in the chain).
C22_SpecificPatternWins ==
    (/\ pc = "output"
     /\ IsGeneric(Strip(raw.Manufacturer))
     /\ Truthy(Strip(raw.PartNumber)))
        => \A p \in DOMAIN PatternTable :
              (/\ Occurs(p, Strip(raw.PartNumber))
               /\ PatternTable[p].vendor # produced.manufacturer)
                  => \E r \in DOMAIN PatternTable :
                        /\ Occurs(r, Strip(raw.PartNumber))
                        /\ PatternTable[r].vendor = produced.manufacturer
                        /\ PatternLength(r) >= PatternLength(p)

\* the entities of a probe's list with the model of an existing entry and a
\* resolved value for field f, by position in the list
Offering(found, existing_disk, f) ==
    {n \in DOMAIN found : found[n].model = existing_disk.model /\ Resolved(found[n][f])}

WmiMethods ==
    {"_get_motherboard_info_wmi", "_get_cpu_info_wmi", "_get_ram_info_wmi",
     "_get_disk_info_wmi", "_get_gpu_info_wmi", "_get_tpm_info_wmi",
     "_get_bluetooth_info_wmi", "_get_wifi_info_wmi"}

\* the methods that do not test self.is_windows
PortableMethods == {"_get_cpu_info_cpuinfo", "_get_ram_info_psutil", "_get_disk_info_psutil"}

\* __init__: is_windows from platform.system(), wmi_client from wmi.WMI() when
\* the library is there and the connection does not raise
NewInstance(host) ==
    [is_windows |-> host.system = "Windows",
     wmi_client |-> IF host.system = "Windows" /\ host.wmi = "connects"
                    THEN "client" ELSE "None"]

\* if not self.wmi_client or not self.is_windows: return result
MethodReturnsEarly(instance, m) ==
    \/ m \in WmiMethods /\ (instance.wmi_client = "None" \/ ~instance.is_windows)
    \/ m \notin PortableMethods /\ ~instance.is_windows

\* a variant in which a method whose query raised drops the client
MethodDropsClient(instance, o) ==
    IF o.raises THEN [instance EXCEPT !.wmi_client = "None"] ELSE instance

\* the instance after a method has run: no method assigns a field of self
InstanceAfterMethod(instance, o) == instance

\* what the i-th method of collector c does when called on the instance
OutcomeOn(instance, host, c, i) ==
    IF MethodReturnsEarly(instance, Methods(c)[i])
    THEN Unavailable(c)
    ELSE MethodOutcome(host, c, i)

\* for method in methods: ... from the i-th method on, with the instance each
\* method leaves behind
RECURSIVE CollectOn(_, _, _, _, _)
CollectOn(instance, host, c, i, acc) ==
    IF i > Len(Methods(c)) THEN [instance |-> instance, value |-> acc]
    ELSE LET o == OutcomeOn(instance, host, c, i)
             merged == CollectorStep(c, acc, o)
             after == InstanceAfterMethod(instance, o)
         IN  IF CollectorBreaks(c, merged, o)
             THEN [instance |-> after, value |-> merged]
             ELSE CollectOn(after, host, c, i + 1, merged)

\* self.get_<category>_info() called on the instance
CallOn(instance, host, c) ==
    IF c = "display" THEN [instance |-> instance, value |-> GetDisplayInfo(host)]
    ELSE CollectOn(instance, host, c, 1, InitialOf(c))

\* the collector calls a behaviour may hold
MaxCalls == 2

\* what the methods of every collector do: all raise, or the method at one
\* place of each list finds the component
RunsAt(j) ==
    [c \in Collectors |->
        [i \in 1..NumMethods(c) |->
            IF i = j THEN Finding(c, j) ELSE Raising(c)]]

InstanceHosts ==
    [system : {"Windows", "Linux"},
     wmi : {"absent", "connects", "raises"},
     installed : {Libraries},
     get_monitors : {[raises |-> FALSE,
                      monitors |-> <<[width |-> 1920, height |-> 1080, is_primary |-> TRUE]>>]},
     runs : {RunsAt(j) : j \in 0..3}]

InstanceInit ==
    /\ pc = "instance"
    /\ category = "none"
    /\ raw \in InstanceHosts
    /\ produced = NewInstance(raw)
    /\ result = <<>>
    /\ tried = 0
    /\ outcomes = <<>>
    /\ trail = <<>>
    /\ NoWindow

\* a caller calls one of the nine accessors on the instance
CallCollector ==
    /\ pc = "instance"
    /\ tried < MaxCalls
    /\ \E i \in DOMAIN Categories :
         LET call == CallOn(produced, raw, Categories[i])
         IN  /\ category' = Categories[i]
             /\ produced' = call.instance
             /\ result' = call.value
             /\ trail' = Append(trail, [collector |-> Categories[i], value |-> call.value])
    /\ tried' = tried + 1
    /\ UNCHANGED <<pc, outcomes, raw, window, workers>>

SpecInstance == InstanceInit /\ [][CallCollector]_vars

\* C24: wmi_client and is_windows are what __init__ made them after any
\* sequence of collector calls, and every call returns what the collector
\* returns when it is the first one called on the instance.
C24_ClientNeverReassigned ==
    pc = "instance" =>
        /\ produced = NewInstance(raw)
        /\ \A k \in DOMAIN trail :
             trail[k].value = CallOn(NewInstance(raw), raw, trail[k].collector).value

\* after a collector whose WMI method raised, the WMI method of another
\* collector still found its component through the same client
C24_Witness ==
    /\ pc = "instance"
    /\ produced.wmi_client = "client"
    /\ Len(trail) = 2
    /\ trail[1].collector = "cpu"
    /\ raw.runs["cpu"][2].raises
    /\ trail[2].collector = "motherboard"
    /\ trail[2].value = [k \in Fields("motherboard") |-> ValueX]

\* C25: in the record of get_ram_info, during the loop and when it is returned,
\* the modules list is non-empty exactly when slots_used is resolved, and a
\* resolved slots_used is the decimal string of the number of modules.
C25_RamRecordConsistency ==
    (category = "ram" /\ pc \in {"loop", "done"}) =>
        /\ (result.modules # <<>>) <=> Resolved(result.slots_used)
        /\ Resolved(result.slots_used) => result.slots_used = DecStr(Len(result.modules))

\* a first method reported one module, a later one two, and the record
\* returned holds the two modules and the count "2"
C25_Witness ==
    /\ category = "ram"
    /\ pc = "done"
    /\ \E i, j \in DOMAIN outcomes :
         /\ i < j
         /\ Len(outcomes[i].rec.modules) = 1
         /\ Len(outcomes[j].rec.modules) = 2
    /\ Len(result.modules) = 2
    /\ result.slots_used = <<"2">>

\* the models of the entities of a list, in the order of the list
ModelsOf(entities) == [n \in DOMAIN entities |-> entities[n].model]

\* the models the methods invoked so far reported, in the order of report
ReportedModels ==
    Flatten([i \in DOMAIN outcomes |->
                IF Returned(outcomes[i]) THEN ModelsOf(outcomes[i].rec) ELSE <<>>])

\* a sequence without its repetitions: each element at its first place
RECURSIVE FirstOccurrences(_, _)
FirstOccurrences(seen, s) ==
    IF s = <<>> THEN seen
    ELSE FirstOccurrences(IF \E n \in DOMAIN seen : seen[n] = Head(s)
                          THEN seen ELSE Append(seen, Head(s)),
                          Tail(s))

\* C26: the list of get_disk_info and of get_gpu_info holds one entry for each
\* distinct model reported so far, in the order of first report; no two entries
\* share a model and a later method removes or moves no entry.
C26_OneEntryPerModel ==
    category \in ListCategories =>
        /\ ModelsOf(result) = FirstOccurrences(<<>>, ReportedModels)
        /\ \A a, b \in DOMAIN result : a # b => result[a].model # result[b].model
        /\ \A i \in 1..Len(trail) : \A n \in DOMAIN Before(i) :
              trail[i][n].model = Before(i)[n].model

\* one method reported the same model twice and another model, a later method
\* reported it again: the list holds the two models once each
C26_Witness ==
    /\ category = "disks"
    /\ pc = "done"
    /\ \E i \in DOMAIN outcomes :
         /\ Returned(outcomes[i])
         /\ Len(outcomes[i].rec) = 2
         /\ outcomes[i].rec[1].model = outcomes[i].rec[2].model
         /\ \A j \in 1..(i - 1) : ~Returned(outcomes[j])
         /\ \E k \in DOMAIN outcomes :
              /\ k > i
              /\ Returned(outcomes[k])
              /\ outcomes[k].rec[1].model # outcomes[i].rec[1].model
    /\ Len(result) = 2

\* the window while its main loop runs: Tk accepts every root.after of the thread
NextLiveWindow ==
    \/ ScheduledCollect
    \/ RefreshClick
    \/ WorkerInvoke
    \/ WorkerReturn
    \/ WorkerRaises
    \/ WorkerFinally
    \/ WorkerClear
    \/ RunCallback

\* the thread is scheduled until it ends and the main loop runs the callbacks
\* it is handed; nothing obliges the user to click
SpecLiveWindow ==
    /\ WindowInit
    /\ [][NextLiveWindow]_vars
    /\ WF_vars(WorkerInvoke)
    /\ WF_vars(WorkerReturn)
    /\ WF_vars(WorkerFinally)
    /\ WF_vars(WorkerClear)
    /\ WF_vars(RunCallback)

\* the thread is at its last statement: the callback that enables the refresh
\* button is with Tk, or has been run already
EnablePosted ==
    \A w \in DOMAIN workers :
        workers[w].pc = "clear" =>
            \/ \E n \in DOMAIN window.callbacks :
                  window.callbacks[n].kind = "refresh_button_normal"
            \/ window.refresh_button = "normal"

StartedOnlyThroughGuards ==
    /\ Cardinality({w \in DOMAIN workers : ~workers[w].force}) <= 1
    /\ \A w \in DOMAIN workers :
         /\ workers[w].started_at_start => workers[w].force
         /\ ~workers[w].running_at_start

\* the scheduled call or a refresh click is turned away by a guard: it starts no
\* thread and leaves the flags, the button, the status line and the values shown
\* as they are (the click shows the box that a pass is running)
RejectedCallChangesNothing ==
    /\ (/\ pc = "window"
        /\ window.scheduled /\ ~window'.scheduled
        /\ window.hardware_collection_running \/ window.hardware_collection_started)
          => /\ window' = [window EXCEPT !.scheduled = FALSE]
             /\ workers' = workers
    /\ (/\ pc = "window"
        /\ window'.clicks # window.clicks
        /\ window.hardware_collection_running)
          => /\ window' = [window EXCEPT !.clicks = @ + 1, !.messages = @ + 1]
             /\ workers' = workers

\* C28: at most one pass is started by a call without force; once
\* hardware_collection_started is set a pass is started only by a forced call
\* made while none is running; and a call turned away by a guard changes
\* neither flag, starts no thread and leaves the values shown unchanged.
C28_NonForcedAtMostOnce ==
    /\ [](pc = "window" => StartedOnlyThroughGuards)
    /\ [][RejectedCallChangesNothing]_vars

\* the scheduled call came after a refresh had started a pass and was turned
\* away; a second refresh started a pass after the first had ended
C28_Witness ==
    /\ pc = "window"
    /\ ~window.scheduled
    /\ Len(workers) = 2
    /\ workers[1].force
    /\ workers[2].force
    /\ workers[2].started_at_start

\* the insert callbacks of the GPUs still with Tk
GpuCallbacksPending ==
    \E n \in DOMAIN window.callbacks :
        window.callbacks[n].kind \in {"gpu_tree_delete", "gpu_tree_insert"}

\* C30: once the rows of the GPUs of a pass have been inserted, gpu_tree shows
\* one row for each entity get_gpu_info returned, holding the entity's model
\* ("Não disponível" only when the model is "Não disponível").
C30_GpuRowShowsModel ==
    pc = "window" =>
        \A w \in DOMAIN workers :
            (workers[w].gpu_posted /\ ~GpuCallbacksPending)
                => window.gpu_tree = [n \in DOMAIN workers[w].gpu_info |->
                                          <<workers[w].gpu_info[n].model>>]

\* ---------------------------------------------------------------------------
\* The interactive tests of the window: run requests, the queue of tests and
\* the threads of the tests (main_window.py, _run_selected_tests to
\* _run_audio_test)
\* ---------------------------------------------------------------------------

\* the keys of selected_tests, in the order of the dictionary
TestIds == <<"keyboard", "usb", "webcam", "audio">>

TestIdSet == {TestIds[n] : n \in DOMAIN TestIds}

\* [test_id for test_id, var in self.selected_tests.items() if var.get()]
Selected(win) == SelectSeq(TestIds, LAMBDA t : t \in win.selected_tests)

\* what initialize() of a test returns: KeyboardTest only sets a flag, USBTest
\* returns False when it detects no device; WebcamTest and AudioTest return
\* either
InitializeOutcomes(test_id) ==
    IF test_id = "keyboard" THEN {TRUE} ELSE {TRUE, FALSE}

\* the status line: the text set and the test it names (the text of an error
\* ends with the message of the exception)
Status(text, test_id) == [text |-> text, test_id |-> test_id]

\* the fields of MainWindow the tests use, after __init__; enqueued, started
\* and rejected record what the handlers did: the ids the last accepted request
\* put in the queue, the ids dispatched since, and the requests turned away
\* because tests were running
InitialTests ==
    [ registration_completed |-> FALSE,
      selected_tests         |-> {},
      tests_running          |-> FALSE,
      run_buttons            |-> "disabled",
      test_queue             |-> <<>>,
      after                  |-> 0,
      status_var             |-> Status("Inicializando...", "none"),
      clicks                 |-> 0,
      enqueued               |-> <<>>,
      started                |-> <<>>,
      rejected               |-> 0 ]

\* a variant that never sees tests running
TestsRunningIgnored(win) == FALSE

\* if self.tests_running:
TestsRunning(win) == win.tests_running

\* the thread run_test of a test, started after initialize() returned True
TestThread(test_id) == [test_id |-> test_id, pc |-> "execute"]

\* _run_keyboard_test, _run_usb_test, _run_webcam_test, _run_audio_test: the
\* window and the threads after the runner of test_id, whose initialize()
\* returned ok
RunTest(win, threads, test_id, ok) ==
    IF ok
    THEN [ window  |-> [win EXCEPT !.status_var = Status("Executando teste de", test_id),
                                   !.started = Append(@, test_id)],
           workers |-> Append(threads, TestThread(test_id)) ]
    ELSE [ window  |-> [win EXCEPT !.status_var = Status("Erro ao inicializar teste de", test_id),
                                   !.started = Append(@, test_id),
                                   !.after = @ + 1],
           workers |-> threads ]

\* _execute_next_test: an empty queue ends the sequence, otherwise the head of
\* the queue is taken and its runner called (the queue holds keys of
\* selected_tests only, so the branch of an unknown id is never taken)
ExecuteNextTest(win, threads, ok) ==
    IF win.test_queue = <<>>
    THEN [ window  |-> [win EXCEPT !.tests_running = FALSE,
                                   !.run_buttons = "normal",
                                   !.status_var = Status("Todos os testes foram concluídos.", "none")],
           workers |-> threads ]
    ELSE RunTest([win EXCEPT !.test_queue = Tail(@)], threads, Head(win.test_queue), ok)

\* the body _run_selected_tests and _run_all_tests share from the guard on
\* tests_running onwards
StartSequence(win, threads, ids, ok) ==
    IF TestsRunning(win)
    THEN [ window  |-> [win EXCEPT !.rejected = @ + 1],
           workers |-> threads ]
    ELSE ExecuteNextTest([win EXCEPT !.tests_running = TRUE,
                                     !.run_buttons = "disabled",
                                     !.test_queue = ids,
                                     !.enqueued = ids,
                                     !.started = <<>>],
                         threads, ok)

\* _run_selected_tests
RunSelected(win, threads, ok) ==
    IF ~win.registration_completed
    THEN [window |-> win, workers |-> threads]
    ELSE IF Selected(win) = <<>>
    THEN [window |-> win, workers |-> threads]
    ELSE StartSequence(win, threads, Selected(win), ok)

\* _run_all_tests
RunAll(win, threads, ok) ==
    IF ~win.registration_completed
    THEN [window |-> win, workers |-> threads]
    ELSE StartSequence(win, threads, TestIds, ok)

\* initialize() of the test a call of _execute_next_test would dispatch
NextInitializeOutcomes(queue) ==
    IF queue = <<>> THEN {TRUE} ELSE InitializeOutcomes(Head(queue))

TestsInit ==
    /\ pc = "tests"
    /\ category = "none"
    /\ result = <<>>
    /\ tried = 0
    /\ outcomes = <<>>
    /\ trail = <<>>
    /\ raw = <<>>
    /\ produced = <<>>
    /\ window = InitialTests
    /\ workers = <<>>

\* the user confirms the registration
ConcludeRegistration ==
    /\ pc = "tests"
    /\ ~window.registration_completed
    /\ window' = [window EXCEPT !.registration_completed = TRUE,
                                !.run_buttons = "normal",
                                !.status_var = Status("Cadastro concluído.", "none")]
    /\ UNCHANGED workers
    /\ CollectorsUnchanged

\* the user ticks or unticks the box of a test
ToggleTest ==
    /\ pc = "tests"
    /\ \E t \in TestIdSet :
          window' = [window EXCEPT !.selected_tests =
                        IF t \in @ THEN @ \ {t} ELSE @ \cup {t}]
    /\ UNCHANGED workers
    /\ CollectorsUnchanged

\* a click on "run selected tests"; the end of a hardware pass enables the
\* buttons again whatever the tests do, so a click can come while tests run
RunSelectedClick ==
    /\ pc = "tests"
    /\ window.clicks < MaxClicks
    /\ \E ok \in NextInitializeOutcomes(Selected(window)) :
          LET done == RunSelected([window EXCEPT !.clicks = @ + 1], workers, ok)
          IN  /\ window' = done.window
              /\ workers' = done.workers
    /\ CollectorsUnchanged

\* a click on "run all tests"
RunAllClick ==
    /\ pc = "tests"
    /\ window.clicks < MaxClicks
    /\ \E ok \in NextInitializeOutcomes(TestIds) :
          LET done == RunAll([window EXCEPT !.clicks = @ + 1], workers, ok)
          IN  /\ window' = done.window
              /\ workers' = done.workers
    /\ CollectorsUnchanged

\* the main loop runs a call of _execute_next_test handed over with
\* root.after(100, ...)
ExecuteNextTestLater ==
    /\ pc = "tests"
    /\ window.after > 0
    /\ \E ok \in NextInitializeOutcomes(window.test_queue) :
          LET done == ExecuteNextTest([window EXCEPT !.after = @ - 1], workers, ok)
          IN  /\ window' = done.window
              /\ workers' = done.workers
    /\ CollectorsUnchanged

\* the threads without the one at position w, which ended
Ended(threads, w) == [n \in 1..(Len(threads) - 1) |-> IF n < w THEN threads[n] ELSE threads[n + 1]]

\* run_test: execute() returned, the result is recorded and the next call of
\* _execute_next_test is handed to the main loop
TestFinishes ==
    /\ pc = "tests"
    /\ \E w \in DOMAIN workers :
          /\ workers[w].pc = "execute"
          /\ workers' = Ended(workers, w)
          /\ window' = [window EXCEPT !.after = @ + 1]
    /\ CollectorsUnchanged

\* run_test: a statement of the try block raised; the handler sets the status
\* line and hands the next call of _execute_next_test to the main loop
TestRaises ==
    /\ pc = "tests"
    /\ \E w \in DOMAIN workers :
          /\ workers[w].pc = "execute"
          /\ workers' = Ended(workers, w)
          /\ window' = [window EXCEPT !.after = @ + 1,
                                      !.status_var = Status("Erro ao executar teste de",
                                                            workers[w].test_id)]
    /\ CollectorsUnchanged

NextTests ==
    \/ ConcludeRegistration
    \/ ToggleTest
    \/ RunSelectedClick
    \/ RunAllClick
    \/ ExecuteNextTestLater
    \/ TestFinishes
    \/ TestRaises

\* every test that was started terminates and the main loop runs the calls it
\* is handed; nothing obliges the user to click
SpecTests ==
    /\ TestsInit
    /\ [][NextTests]_vars
    /\ WF_vars(TestFinishes \/ TestRaises)
    /\ WF_vars(ExecuteNextTestLater)

\* the state of a sequence of tests: at most one test runs, a test runs or a
\* call of _execute_next_test is pending but never both, the tests dispatched
\* followed by those still queued are the tests the request queued, and with
\* tests_running False nothing runs, is queued or is pending
OneTestAtATime ==
    /\ Len(workers) + window.after <= 1
    /\ window.started \o window.test_queue = window.enqueued
    /\ window.tests_running <=> (Len(workers) + window.after = 1)
    /\ ~window.tests_running => window.test_queue = <<>>

\* a run request made while tests run is counted (the click, and the request
\* when the guard on tests_running turned it away) and changes nothing else
RequestWhileRunningChangesNothing ==
    (/\ pc = "tests"
     /\ window'.clicks # window.clicks
     /\ window.tests_running)
        => /\ window' \in {[window EXCEPT !.clicks = @ + 1],
                           [window EXCEPT !.clicks = @ + 1, !.rejected = @ + 1]}
           /\ workers' = workers

\* C29: at most one sequence of tests is in progress: a run request made while
\* tests_running is True queues nothing and starts nothing; the queued tests
\* are dispatched one at a time in queue order, the next one only after the
\* previous one finished, failed to initialize or raised; and with the queue
\* empty tests_running is reset, so that it is False in the end when every
\* test started terminates.
C29_TestSequencing ==
    /\ [](pc = "tests" => OneTestAtATime)
    /\ [][RequestWhileRunningChangesNothing]_vars
    /\ (pc = "tests" /\ window.tests_running) ~> (~window.tests_running)

\* a sequence of at least two tests ended, each dispatched in queue order, and
\* a request made while it ran was turned away
C29_Witness ==
    /\ pc = "tests"
    /\ ~window.tests_running
    /\ window.rejected = 1
    /\ Len(window.enqueued) >= 2
    /\ window.started = window.enqueued
    /\ window.run_buttons = "normal"

====
